---------------------------- MODULE Spec2Model ----------------------------
(***************************************************************************)
(* A model of the adaptive space-filling-curve convolutional autoencoder   *)
(* (sfc_cae/utils.py, sfc_cae/sfc_cae_adaptive.py).                        *)
(*                                                                         *)
(* Each component of the program is a group of variables with its own      *)
(* initial condition, actions and specification; while one component runs  *)
(* the variables of the others rest at their idle values.                  *)
(*                                                                         *)
(* Conventions: Python's None is the empty sequence <<>> and a present     *)
(* value v is <<v>>; a Python list or 1-d array is a sequence (index 0 of  *)
(* the code is index 1 here); a real number is a fraction <<num, den>>     *)
(* with den > 0.                                                           *)
(***************************************************************************)
EXTENDS Integers, Sequences, FiniteSets, TLC

(***************************************************************************)
(* Bounds of the model.                                                    *)
(***************************************************************************)
MaxSize == 16
MaxKernel == 3
MaxPadding == 1
MaxConvLayers == 6

(***************************************************************************)
(* Program constants.                                                      *)
(***************************************************************************)
GuardThreshold == 4000
DefaultFinalChannels == 16

(***************************************************************************)
(* The state.                                                              *)
(***************************************************************************)
\* Layer sizing: find_size_conv_layers_and_fc_layers (utils.py) and the
\* transposed-convolution stack the decoder builds from its plan.
VARIABLES
  pc_plan,          \* position in find_size_conv_layers_and_fc_layers / decoder
  args,             \* the arguments of the call, as passed
  size,             \* local: running spatial size, then running FC width
  input_channel,    \* local: running channel count
  stride,           \* local: the stride (reassigned before the FC loop)
  conv_size,        \* local list
  output_paddings,  \* local list
  channels,         \* local list
  size_fc,          \* local list
  inv_conv_start,   \* local
  plan,             \* the returned tuple, None before the return
  trans_size        \* spatial sizes through the decoder's ConvTranspose stack

planVars == <<pc_plan, args, size, input_channel, stride, conv_size,
              output_paddings, channels, size_fc, inv_conv_start, plan, trans_size>>

PlanIdle ==
  /\ pc_plan = "idle"
  /\ args = <<>>
  /\ size = 0
  /\ input_channel = 0
  /\ stride = 0
  /\ conv_size = <<>>
  /\ output_paddings = <<>>
  /\ channels = <<>>
  /\ size_fc = <<>>
  /\ inv_conv_start = 0
  /\ plan = <<>>
  /\ trans_size = <<>>

\* Length adaptation: a pair of BackwardForwardConnecting layers and one sequence
\* sent through the first and then the second.
VARIABLES
  pc_bfc,           \* "new", "built", "first", "second", "RuntimeError"
  lengths,          \* <<length_a, length_b>>: the first layer is (a, b), the second (b, a)
  reduce,           \* the decoder's reduce_strategy
  first_layer,      \* BackwardForwardConnecting(length_a, length_b)
  second_layer,     \* BackwardForwardConnecting(length_b, length_a)
  leading,          \* the lengths of the input's axes before the last
  shapes,           \* the shapes of the input and of what each forward returned
  x_in,             \* the input sequence, of length length_a: one row of the last axis
  x_mid,            \* first_layer.forward(x_in)
  x_out             \* second_layer.forward(x_mid)

bfcVars == <<pc_bfc, lengths, reduce, first_layer, second_layer, leading, shapes,
             x_in, x_mid, x_out>>

BfcIdle ==
  /\ pc_bfc = "idle"
  /\ lengths = <<>>
  /\ reduce = ""
  /\ first_layer = <<>>
  /\ second_layer = <<>>
  /\ leading = <<>>
  /\ shapes = <<>>
  /\ x_in = <<>>
  /\ x_mid = <<>>
  /\ x_out = <<>>

\* Neighbourhood index builder: gen_neighbour_keys and get_neighbourhood_md on
\* the index grid torch.arange(N).reshape(shape).
VARIABLES
  pc_nbr,           \* "keys", "blocks", "done", "concat", "TypeError"
  shape,            \* the grid's axis lengths
  nbr_range,        \* gen_neighbour_keys' argument "range"
  direct_neigh,     \* gen_neighbour_keys' argument "direct_neigh"
  Ax,               \* the offset list
  order_blocks,     \* get_neighbourhood_md's tuple "order_list" while it grows
  order_list,       \* the returned index table
  nbr_x,            \* a tensor with the grid's nodes on its last axis
  concat_list       \* get_concat_list_md(nbr_x, order_list, len(Ax) + 1)

nbrVars == <<pc_nbr, shape, nbr_range, direct_neigh, Ax, order_blocks, order_list,
             nbr_x, concat_list>>

NbrIdle ==
  /\ pc_nbr = "idle"
  /\ shape = <<>>
  /\ nbr_range = 0
  /\ direct_neigh = FALSE
  /\ Ax = <<>>
  /\ order_blocks = <<>>
  /\ order_list = <<>>
  /\ nbr_x = <<>>
  /\ concat_list = <<>>

\* Linear interpolation: linear_interpolate_python_weights and
\* linear_interpolate_python.
VARIABLES
  pc_itp,           \* "new", "weights", "done", "IndexError"
  nonods,           \* number of nodes to interpolate from
  nonods_l,         \* number of nodes to interpolate to
  map_back,         \* whether back-mapping weights are asked for
  itp_x,            \* the sequence interpolated
  itp_params,       \* the tuple linear_interpolate_python_weights returns
  itp_out           \* linear_interpolate_python's x_out

itpVars == <<pc_itp, nonods, nonods_l, map_back, itp_x, itp_params, itp_out>>

ItpIdle ==
  /\ pc_itp = "idle"
  /\ nonods = 0
  /\ nonods_l = 0
  /\ map_back = FALSE
  /\ itp_x = <<>>
  /\ itp_params = <<>>
  /\ itp_out = <<>>

\* The neighbour layer: NearestNeighbouring_md.
VARIABLES
  pc_nn,            \* "new", "built", "done", "RuntimeError"
  nn_size,          \* self.size
  nn_channels,      \* self.channels
  num_neigh_md,     \* self.num_neigh_md
  self_concat,      \* self.self_concat
  nn_weights,       \* self.weights
  nn_bias,          \* self.bias
  gathered,         \* the values get_concat_list_md gathered
  tensor_list,      \* the tensor handed to forward, which multiplies it in place
  nn_out            \* what forward returns

nnVars == <<pc_nn, nn_size, nn_channels, num_neigh_md, self_concat, nn_weights,
            nn_bias, gathered, tensor_list, nn_out>>

NnIdle ==
  /\ pc_nn = "idle"
  /\ nn_size = 0
  /\ nn_channels = 0
  /\ num_neigh_md = 0
  /\ self_concat = 0
  /\ nn_weights = <<>>
  /\ nn_bias = <<>>
  /\ gathered = <<>>
  /\ tensor_list = <<>>
  /\ nn_out = <<>>

\* The autoencoder: SFC_CAE_Encoder_Adaptive, SFC_CAE_Decoder_Adaptive and
\* SFC_CAE_Adaptive.  An object is a record of the attributes assigned so far.
VARIABLES
  pc_ae,            \* "new", "encoder", "built", or the exception construction raised
  cfg,              \* the constructor's arguments
  encoder,          \* the encoder's attributes
  decoder,          \* the decoder's attributes
  ae_out,           \* the batch and outcome of the last SFC_CAE_Adaptive.forward
  dec_results       \* the outcomes decoder.forward has had on one and the same arguments

aeVars == <<pc_ae, cfg, encoder, decoder, ae_out, dec_results>>

AeIdle ==
  /\ pc_ae = "idle"
  /\ cfg = <<>>
  /\ encoder = <<>>
  /\ decoder = <<>>
  /\ ae_out = <<>>
  /\ dec_results = {}

\* The variational tail of encoder.forward.
VARIABLES
  pc_kl,            \* "layers", "sampled", "done"
  kl_args,          \* self.input_size and self.components
  layerMu,          \* self.layerMu(x), per sample and latent element
  layerSig,         \* self.layerSig(x) in units of ln 2, per sample and latent element
  mu,
  sigma,
  kl_div            \* the value returned, as rational + ln2 * (a rational)

klVars == <<pc_kl, kl_args, layerMu, layerSig, mu, sigma, kl_div>>

KlIdle ==
  /\ pc_kl = "idle"
  /\ kl_args = <<>>
  /\ layerMu = <<>>
  /\ layerSig = <<>>
  /\ mu = <<>>
  /\ sigma = <<>>
  /\ kl_div = <<>>

\* The branch loops of SFC_CAE_Encoder_Adaptive.forward and
\* SFC_CAE_Decoder_Adaptive.forward on a batch of snapshots.
VARIABLES
  pc_fw,            \* "encoder", "cat", "chunk", "decoder", "sum", "done", or the exception raised
  fw_args,          \* the model's sizes and the arguments of the two forward calls
  fw_i,             \* the branch loop's i
  xs,               \* encoder.forward's list xs, with what each branch was given
  enc_ctoa,         \* the ordering number encoder.ctoa was last built with, or None
  fw_x,             \* the encoder's concatenated vector
  fw_chunks,        \* the decoder's tuple x after torch.chunk
  branches,         \* what each decoder branch consumed, used and produced
  data_z            \* decoder.forward's list data_z

fwVars == <<pc_fw, fw_args, fw_i, xs, enc_ctoa, fw_x, fw_chunks, branches, data_z>>

FwIdle ==
  /\ pc_fw = "idle"
  /\ fw_args = <<>>
  /\ fw_i = 0
  /\ xs = <<>>
  /\ enc_ctoa = <<>>
  /\ fw_x = <<>>
  /\ fw_chunks = <<>>
  /\ branches = <<>>
  /\ data_z = <<>>

\* Orderings and their inverses: get_sfc_curves_from_coords (utils.py 659-686)
\* and the decoder's inverse of the structuring ordering
\* (sfc_cae_adaptive.py 517-522).
VARIABLES
  pc_sfc,           \* "new", "paired", "ordered", "back"
  numbering,        \* space_filling_curve_numbering, a list of columns; <<>> if none
  second_sfc,       \* encoder.second_sfc, None if not configured
  curve_lists,      \* the returned curve_lists
  inv_lists,        \* the returned inv_lists
  inv_second_sfc,   \* decoder.inv_second_sfc
  sfc_x,            \* a tensor, its last axis
  sfc_y,            \* sfc_x reordered by an ordering
  sfc_z             \* sfc_y reordered by the paired inverse

sfcVars == <<pc_sfc, numbering, second_sfc, curve_lists, inv_lists, inv_second_sfc,
             sfc_x, sfc_y, sfc_z>>

SfcIdle ==
  /\ pc_sfc = "idle"
  /\ numbering = <<>>
  /\ second_sfc = <<>>
  /\ curve_lists = <<>>
  /\ inv_lists = <<>>
  /\ inv_second_sfc = <<>>
  /\ sfc_x = <<>>
  /\ sfc_y = <<>>
  /\ sfc_z = <<>>

\* The learning-rate schedule of train_model (training.py 521-527, 587-602).
VARIABLES
  pc_train,         \* "loop", "returned"
  n_epochs,         \* the number of epochs to train
  epoch,            \* the loop variable: the next epoch to run
  check_gap,        \* the gap between two checks
  lr,               \* optimizer.param_groups[0]['lr']
  old_loss,         \* local
  decrease_rate,    \* local
  train_MSEs,       \* the training loss of every epoch run
  lr_list,          \* the learning rates set
  lr_change_epoches,\* the epochs they were set at
  printed           \* what line 595 printed: the epoch, the gap and the rate compared

trainVars == <<pc_train, n_epochs, epoch, check_gap, lr, old_loss, decrease_rate,
               train_MSEs, lr_list, lr_change_epoches, printed>>

TrainIdle ==
  /\ pc_train = "idle"
  /\ n_epochs = 0
  /\ epoch = 0
  /\ check_gap = 0
  /\ lr = <<>>
  /\ old_loss = <<>>
  /\ decrease_rate = <<>>
  /\ train_MSEs = <<>>
  /\ lr_list = <<>>
  /\ lr_change_epoches = <<>>
  /\ printed = <<>>

\* The encoder's 1-D neighbour table: built in __init__ (sfc_cae_adaptive.py
\* 63-71, 102-110) and gathered through in forward (397-399).
VARIABLES
  pc_tab,           \* "new", "table", "built", "gathered", or the exception raised
  tab_args,         \* the constructor's input_size and its keyword interpolate_num
  self_input_size,  \* self.input_size
  NN_neigh_1d,      \* self.NN_neigh_1d
  tab_a,            \* forward's stacked tensor a
  nn_tt_list        \* forward's tt_list

tabVars == <<pc_tab, tab_args, self_input_size, NN_neigh_1d, tab_a, nn_tt_list>>

TabIdle ==
  /\ pc_tab = "idle"
  /\ tab_args = <<>>
  /\ self_input_size = 0
  /\ NN_neigh_1d = <<>>
  /\ tab_a = <<>>
  /\ nn_tt_list = <<>>

vars == <<planVars, bfcVars, nbrVars, itpVars, nnVars, aeVars, klVars, fwVars, sfcVars, trainVars, tabVars>>

\* What each component leaves alone.
notPlan == <<bfcVars, nbrVars, itpVars, nnVars, aeVars, klVars, fwVars, sfcVars, trainVars, tabVars>>
notBfc == <<planVars, nbrVars, itpVars, nnVars, aeVars, klVars, fwVars, sfcVars, trainVars, tabVars>>
notNbr == <<planVars, bfcVars, itpVars, nnVars, aeVars, klVars, fwVars, sfcVars, trainVars, tabVars>>
notItp == <<planVars, bfcVars, nbrVars, nnVars, aeVars, klVars, fwVars, sfcVars, trainVars, tabVars>>
notNn == <<planVars, bfcVars, nbrVars, itpVars, aeVars, klVars, fwVars, sfcVars, trainVars, tabVars>>
notAe == <<planVars, bfcVars, nbrVars, itpVars, nnVars, klVars, fwVars, sfcVars, trainVars, tabVars>>
notKl == <<planVars, bfcVars, nbrVars, itpVars, nnVars, aeVars, fwVars, sfcVars, trainVars, tabVars>>
notFw == <<planVars, bfcVars, nbrVars, itpVars, nnVars, aeVars, klVars, sfcVars, trainVars, tabVars>>
notSfc == <<planVars, bfcVars, nbrVars, itpVars, nnVars, aeVars, klVars, fwVars, trainVars, tabVars>>
notTrain == <<planVars, bfcVars, nbrVars, itpVars, nnVars, aeVars, klVars, fwVars, sfcVars, tabVars>>
notTab == <<planVars, bfcVars, nbrVars, itpVars, nnVars, aeVars, klVars, fwVars, sfcVars, trainVars>>

None == <<>>
Some(v) == <<v>>
Val(o) == o[1]

(***************************************************************************)
(* Python helpers.                                                         *)
(***************************************************************************)
RECURSIVE Pow(_, _)
Pow(b, e) == IF e = 0 THEN 1 ELSE b * Pow(b, e - 1)

Last(s) == s[Len(s)]

Reverse(s) == [i \in 1..Len(s) |-> s[Len(s) + 1 - i]]

\* Fractions <<num, den>>, den > 0, kept in lowest terms.
RECURSIVE Gcd(_, _)
Gcd(a, b) == IF b = 0 THEN a ELSE Gcd(b, a % b)

Abs(a) == IF a < 0 THEN -a ELSE a

Frac(n, d) == LET g == Gcd(Abs(n), d) IN <<n \div g, d \div g>>

FracInt(n) == <<n, 1>>

\* over the least common denominator
FracAdd(p, q) ==
  LET g == Gcd(p[2], q[2]) IN
    Frac(p[1] * (q[2] \div g) + q[1] * (p[2] \div g), (p[2] \div g) * q[2])

FracNeg(p) == <<-p[1], p[2]>>

FracSub(p, q) == FracAdd(p, FracNeg(q))

\* cross-reduced before multiplying
FracMul(p, q) ==
  LET g1 == Gcd(Abs(p[1]), q[2])
      g2 == Gcd(Abs(q[1]), p[2])
  IN Frac((p[1] \div g1) * (q[1] \div g2), (p[2] \div g2) * (q[2] \div g1))

\* q # 0
FracInv(q) == IF q[1] < 0 THEN <<-q[2], -q[1]>> ELSE <<q[2], q[1]>>

FracDiv(p, q) == FracMul(p, FracInv(q))

FracAbs(p) == <<Abs(p[1]), p[2]>>

FracLess(p, q) == FracSub(p, q)[1] < 0

Min(a, b) == IF a < b THEN a ELSE b

Max(a, b) == IF a < b THEN b ELSE a

(***************************************************************************)
(* Layer sizing: find_size_conv_layers_and_fc_layers (utils.py) and the    *)
(* transposed-convolution stack the decoder builds from its plan.          *)
(***************************************************************************)
\* (size + 2 * padding - kernel_size) // stride + 1
ConvOut(sz, k, p, s) == ((sz + 2 * p - k) \div s) + 1

\* (size + 2 * padding - kernel_size) % stride
OutPad(sz, k, p, s) == (sz + 2 * p - k) % s

\* size ** ndim * channels[-1] * sfc_nums > 4000
ConvGuardOneCurve(sz, nd, ch, n) == Pow(sz, nd) * ch > GuardThreshold
ConvGuard(sz, nd, ch, n) == Pow(sz, nd) * ch * n > GuardThreshold

\* size // (stride ** 1.5) > dims_latent, i.e. size >= (dims_latent+1) * stride^1.5,
\* i.e. size^2 >= (dims_latent+1)^2 * stride^3 (compared without squaring size).
FcGuard(sz, s, d) ==
  /\ sz > 0
  /\ sz >= (((d + 1) * (d + 1) * s * s * s) + sz - 1) \div sz

\* np.array(output_paddings[::-1][1:])
RetPaddingsWrongEnd(op) == SubSeq(Reverse(op), 1, Len(op) - 1)
RetPaddings(op) == Tail(Reverse(op))

\* ConvTranspose output size: (in - 1) * stride - 2 * padding + kernel_size + output_padding
TransOut(in, k, p, s, op) == (in - 1) * s - 2 * p + k + op

KernelStridePadding ==
  {<<32, 4, 16>>, <<176, 8, 88>>, <<5, 2, 2>>} \cup
  {<<k, s, p>> : k \in 1..MaxKernel, s \in 1..MaxKernel, p \in 0..MaxPadding}

Sizes == (1..MaxSize) \cup {GuardThreshold + k : k \in 1..MaxSize}

PlanArgs ==
  { a \in [ size : Sizes, ksp : KernelStridePadding, dims_latent : {2, 16},
            sfc_nums : {1, 2}, input_channel : {1, 4}, increase_multi : {2, 4},
            num_final_channels : {DefaultFinalChannels},
            first_sp_channel : {None, Some(32)}, ndim : {1, 2, 3} ] :
      /\ a.ksp[1] >= a.ksp[2]
      /\ a.ndim > 1 => a.size <= MaxSize }

kernel_size == args.ksp[1]
enc_stride == args.ksp[2]
padding == args.ksp[3]

PlanInit ==
  /\ BfcIdle
  /\ NbrIdle
  /\ ItpIdle
  /\ NnIdle
  /\ AeIdle
  /\ KlIdle
  /\ FwIdle
  /\ SfcIdle
  /\ TrainIdle
  /\ TabIdle
  /\ pc_plan = "start"
  /\ args \in PlanArgs
  /\ size = args.size
  /\ input_channel = args.input_channel
  /\ stride = args.ksp[2]
  /\ conv_size = <<>>
  /\ output_paddings = <<>>
  /\ channels = <<>>
  /\ size_fc = <<>>
  /\ inv_conv_start = 0
  /\ plan = None
  /\ trans_size = <<>>

\* utils.py 1569-1579
PlanStart ==
  /\ pc_plan = "start"
  /\ IF args.first_sp_channel # None
       THEN LET s1 == ConvOut(size, kernel_size, padding, stride) IN
            /\ size' = s1
            /\ input_channel' = input_channel * args.increase_multi
            /\ conv_size' = <<size, s1>>
            /\ output_paddings' = << OutPad(size, kernel_size, padding, stride),
                                     OutPad(s1, kernel_size, padding, stride) >>
            /\ channels' = << Val(args.first_sp_channel), input_channel' >>
       ELSE /\ conv_size' = <<size>>
            /\ output_paddings' = << OutPad(size, kernel_size, padding, stride) >>
            /\ channels' = <<input_channel>>
            /\ UNCHANGED <<size, input_channel>>
  /\ pc_plan' = "conv"
  /\ UNCHANGED notPlan
  /\ UNCHANGED <<args, stride, size_fc, inv_conv_start, plan, trans_size>>

\* utils.py 1582-1591, one iteration of the conv-sizing loop
ConvStep ==
  /\ pc_plan = "conv"
  /\ Len(channels) <= MaxConvLayers
  /\ ConvGuard(size, args.ndim, Last(channels), args.sfc_nums)
  /\ size' = ConvOut(size, kernel_size, padding, stride)
  /\ conv_size' = Append(conv_size, size')
  /\ output_paddings' = Append(output_paddings, OutPad(size', kernel_size, padding, stride))
  /\ IF args.num_final_channels >= input_channel * args.increase_multi
       THEN /\ input_channel' = input_channel * args.increase_multi
            /\ channels' = Append(channels, input_channel')
       ELSE /\ channels' = Append(channels, args.num_final_channels)
            /\ UNCHANGED input_channel
  /\ UNCHANGED notPlan
  /\ UNCHANGED <<pc_plan, args, stride, size_fc, inv_conv_start, plan, trans_size>>

\* utils.py 1582 (guard false), 1594-1598
ConvExit ==
  /\ pc_plan = "conv"
  /\ ~ ConvGuard(size, args.ndim, Last(channels), args.sfc_nums)
  /\ inv_conv_start' = Pow(size, args.ndim)
  /\ size' = Pow(size, args.ndim) * args.sfc_nums * args.num_final_channels
  /\ size_fc' = <<size'>>
  /\ stride' = IF stride < 4 THEN 8 ELSE stride
  /\ pc_plan' = "fc"
  /\ UNCHANGED notPlan
  /\ UNCHANGED <<args, input_channel, conv_size, output_paddings, channels, plan, trans_size>>

\* utils.py 1604-1606
Return(fc) ==
  [ conv_size |-> conv_size,
    size_conv |-> Len(channels) - 1,
    size_fc |-> Append(fc, args.dims_latent),
    channels |-> channels,
    inv_conv_start |-> inv_conv_start,
    output_paddings |-> RetPaddings(output_paddings) ]

\* utils.py 1600-1603, one iteration of the FC-sizing loop that does not break
FcStep ==
  /\ pc_plan = "fc"
  /\ FcGuard(size, stride, args.dims_latent)
  /\ size' = size \div stride
  /\ ~ (size' * stride < 100 /\ size' < 50)
  /\ size_fc' = Append(size_fc, size')
  /\ UNCHANGED notPlan
  /\ UNCHANGED <<pc_plan, args, input_channel, stride, conv_size, output_paddings,
                 channels, inv_conv_start, plan, trans_size>>

\* utils.py 1600-1602 (break), 1604-1606
FcBreak ==
  /\ pc_plan = "fc"
  /\ FcGuard(size, stride, args.dims_latent)
  /\ size' = size \div stride
  /\ size' * stride < 100 /\ size' < 50
  /\ size_fc' = Append(size_fc, args.dims_latent)
  /\ plan' = Some(Return(size_fc))
  /\ pc_plan' = "returned"
  /\ UNCHANGED notPlan
  /\ UNCHANGED <<args, input_channel, stride, conv_size, output_paddings,
                 channels, inv_conv_start, trans_size>>

\* utils.py 1600 (guard false), 1604-1606
FcExit ==
  /\ pc_plan = "fc"
  /\ ~ FcGuard(size, stride, args.dims_latent)
  /\ size_fc' = Append(size_fc, args.dims_latent)
  /\ plan' = Some(Return(size_fc))
  /\ pc_plan' = "returned"
  /\ UNCHANGED notPlan
  /\ UNCHANGED <<args, size, input_channel, stride, conv_size, output_paddings,
                 channels, inv_conv_start, trans_size>>

\* sfc_cae_adaptive.py 519/529: the decoder's stack starts at conv_size[-1]
DecoderStart ==
  /\ pc_plan = "returned"
  /\ trans_size' = << Last(Val(plan).conv_size) >>
  /\ pc_plan' = "trans"
  /\ UNCHANGED notPlan
  /\ UNCHANGED <<args, size, input_channel, stride, conv_size, output_paddings,
                 channels, size_fc, inv_conv_start, plan>>

\* sfc_cae_adaptive.py 547-557: layer j (1-based) has output_padding
\* encoder.output_paddings[j - 1], the encoder's kernel_size, stride, padding
DecoderConvTrans ==
  /\ pc_plan = "trans"
  /\ Len(trans_size) <= Val(plan).size_conv
  /\ LET j == Len(trans_size) IN
       trans_size' = Append(trans_size,
                            TransOut(Last(trans_size), kernel_size, padding, enc_stride,
                                     Val(plan).output_paddings[j]))
  /\ UNCHANGED notPlan
  /\ UNCHANGED <<pc_plan, args, size, input_channel, stride, conv_size, output_paddings,
                 channels, size_fc, inv_conv_start, plan>>

PlanNext ==
  \/ PlanStart
  \/ ConvStep
  \/ ConvExit
  \/ FcStep
  \/ FcBreak
  \/ FcExit
  \/ DecoderStart
  \/ DecoderConvTrans

SpecPlan == PlanInit /\ [][PlanNext]_vars

DecoderBuilt == pc_plan = "trans" /\ Len(trans_size) = Val(plan).size_conv + 1

(***************************************************************************)
(* C1: with the output_paddings returned by                                *)
(* find_size_conv_layers_and_fc_layers, the decoder's transposed           *)
(* convolutions, started at conv_size[-1], walk the encoder's spatial      *)
(* sizes in reverse order and end exactly at the input size.               *)
(***************************************************************************)
C1_DecoderInvertsEncoder ==
  (pc_plan = "trans") =>
     /\ \A j \in 1..Len(trans_size) :
           trans_size[j] = conv_size[Len(conv_size) + 1 - j]
     /\ DecoderBuilt => Last(trans_size) = args.size

C1_Witness ==
  /\ DecoderBuilt
  /\ Val(plan).size_conv >= 2
  /\ \E j \in 1..Len(Val(plan).output_paddings) : Val(plan).output_paddings[j] > 0
  /\ Last(trans_size) = args.size

(***************************************************************************)
(* Length adaptation: BackwardForwardConnecting (utils.py 1107-1187).      *)
(***************************************************************************)
MaxLen == 7

SeqValues == {1, 2}

\* utils.py 1139-1150: the occurrence count of position i (1-based) as derived
\* from total_re_num, even_re_num, odd_re_num and remain_num; n is the short
\* length before "self.input_nodes -= 1".
Occurence(n, output_nodes) ==
  LET input_nodes == n - 1
      total_re_num == output_nodes \div input_nodes
      even_re_num == total_re_num \div 2
      odd_re_num == total_re_num - even_re_num
      remain_num == output_nodes % input_nodes
  IN [ i \in 1..n |->
         (IF i <= n - 1 THEN odd_re_num ELSE 0)
       + (IF i >= 2 THEN even_re_num ELSE 0)
       + (IF odd_re_num = even_re_num
            THEN (IF i <= remain_num THEN 1 ELSE 0)
            ELSE (IF i >= n - remain_num THEN 1 ELSE 0)) ]

\* utils.py 1152-1155: the pass lengths appended to para_groups from "nodes" on
RECURSIVE ParaGroupsFullPasses(_, _, _)
ParaGroupsFullPasses(nodes, input_nodes, output_nodes) ==
  IF nodes < output_nodes
    THEN LET layer_node_size == Min(output_nodes - nodes, input_nodes + 1)
         IN <<layer_node_size>> \o ParaGroupsFullPasses(nodes + layer_node_size, input_nodes,
                                                        output_nodes)
    ELSE <<>>

RECURSIVE ParaGroups(_, _, _)
ParaGroups(nodes, input_nodes, output_nodes) ==
  IF nodes < output_nodes
    THEN LET layer_node_size == Min(output_nodes - nodes, input_nodes)
         IN <<layer_node_size>> \o ParaGroups(nodes + layer_node_size, input_nodes, output_nodes)
    ELSE <<>>

\* utils.py 1157-1158: 1 / occurence[:g] on a forward pass, 1 / occurence[-g:] otherwise
LayerWeights(occ, g, forward) ==
  [ k \in 1..g |-> IF forward THEN <<1, occ[k]>> ELSE <<1, occ[Len(occ) - g + k]>> ]

\* utils.py 1129-1165: BackwardForwardConnecting.__init__
BackwardForwardConnecting(input_nodes, output_nodes) ==
  LET n == Min(input_nodes, output_nodes)
      large == Max(input_nodes, output_nodes)
      interpolate == input_nodes < output_nodes
      occ == Occurence(n, large)
      groups == ParaGroups(0, n - 1, large)
  IN [ interpolate |-> interpolate,
       input_nodes |-> n - 1,
       output_nodes |-> large,
       occurence |-> occ,
       para_groups |-> groups,
       weights |-> IF interpolate THEN <<>>
                   ELSE [ i \in 1..Len(groups) |-> LayerWeights(occ, groups[i], i % 2 = 1) ] ]

\* utils.py 1168-1175: passes i, i+1, ... of the expansion (i is 1-based here)
RECURSIVE ExpandFrom(_, _, _)
ExpandFrom(layer, x, i) ==
  IF i > Len(layer.para_groups) THEN <<>>
  ELSE LET g == layer.para_groups[i]
           temp == IF i % 2 = 1 THEN SubSeq(x, 1, g) ELSE SubSeq(Reverse(x), 1, g)
       IN temp \o ExpandFrom(layer, x, i + 1)

\* utils.py 1179-1186: passes i, i+1, ... of the contraction added onto xx
RECURSIVE ContractFrom(_, _, _, _, _)
ContractFrom(layer, x, i, cur_idx, xx) ==
  IF i > Len(layer.para_groups) THEN xx
  ELSE LET g == layer.para_groups[i]
           n == Len(xx)
           temp == SubSeq(x, cur_idx + 1, cur_idx + g)
           w == layer.weights[i]
           added ==
             IF i % 2 = 0
               THEN [ j \in 1..n |->
                        IF j > n - g
                          THEN FracAdd(xx[j], FracMul(Reverse(temp)[j - (n - g)], w[j - (n - g)]))
                          ELSE xx[j] ]
               ELSE [ j \in 1..n |->
                        IF j <= g THEN FracAdd(xx[j], FracMul(temp[j], w[j])) ELSE xx[j] ]
       IN ContractFrom(layer, x, i + 1, cur_idx + g, added)

\* utils.py 1167-1187: BackwardForwardConnecting.forward
Forward(layer, x) ==
  IF layer.interpolate
    THEN ExpandFrom(layer, x, 1)
    ELSE ContractFrom(layer, x, 1, 0, [ j \in 1..(layer.input_nodes + 1) |-> FracInt(0) ])

Fracs(x) == [ i \in 1..Len(x) |-> FracInt(x[i]) ]

\* "self += other" on tensors of these shapes: the broadcast of the two must
\* have the shape of self
InPlaceAddOk(self_shape, other_shape) ==
  /\ Len(other_shape) <= Len(self_shape)
  /\ \A d \in 1..Len(other_shape) :
        LET s == self_shape[Len(self_shape) - Len(other_shape) + d] IN
          other_shape[d] = s \/ other_shape[d] = 1

\* the shape two shapes broadcast to, aligned at the last axis; <<>> if they do not
BroadcastShape(s, t) ==
  LET r == Max(Len(s), Len(t))
      at(u, d) == IF d > r - Len(u) THEN u[d - (r - Len(u))] ELSE 1
  IN IF \A d \in 1..r : at(s, d) = at(t, d) \/ at(s, d) = 1 \/ at(t, d) = 1
       THEN [ d \in 1..r |-> Max(at(s, d), at(t, d)) ]
       ELSE <<>>

\* utils.py 1157, 1183-1185: whether every "xx[...] += temp * weights + bias" of a
\* contraction can be done in place; the weights and bias of a pass of g
\* elements have the shape (channels, g) with channels = 1
ContractionAdds(layer, x_shape) ==
  \A i \in 1..Len(layer.para_groups) :
     LET g == layer.para_groups[i]
         slice == SubSeq(x_shape, 1, Len(x_shape) - 1) \o <<g>>
         term == BroadcastShape(slice, <<1, g>>)
     IN term # <<>> /\ InPlaceAddOk(slice, term)

\* utils.py 1167-1187: the shape forward returns for an input of shape x_shape
ForwardShape(layer, x_shape) ==
  SubSeq(x_shape, 1, Len(x_shape) - 1) \o
    << IF layer.interpolate THEN layer.output_nodes ELSE layer.input_nodes + 1 >>

\* the inputs' axes before the last: none, a channel axis, batch and channel axes
LeadingAxes == { <<>>, <<2>>, <<2, 1>> }

BfcInit ==
  /\ PlanIdle
  /\ NbrIdle
  /\ ItpIdle
  /\ NnIdle
  /\ AeIdle
  /\ KlIdle
  /\ FwIdle
  /\ SfcIdle
  /\ TrainIdle
  /\ TabIdle
  /\ pc_bfc = "new"
  /\ lengths \in (2..MaxLen) \X (2..MaxLen)
  /\ reduce \in {"truncate", "mean"}
  /\ first_layer = None
  /\ second_layer = None
  /\ leading \in LeadingAxes
  /\ shapes = << leading \o << lengths[1] >> >>
  /\ x_in \in [ 1..lengths[1] -> SeqValues ]
  /\ x_mid = <<>>
  /\ x_out = <<>>

\* utils.py 507 (AdaptiveDataset), sfc_cae_adaptive.py 229 and 531: the two layers
\* of a pair are built for the same two lengths, in opposite orders
BuildLayers ==
  /\ pc_bfc = "new"
  /\ first_layer' = Some(BackwardForwardConnecting(lengths[1], lengths[2]))
  /\ second_layer' = Some(BackwardForwardConnecting(lengths[2], lengths[1]))
  /\ pc_bfc' = "built"
  /\ UNCHANGED notBfc
  /\ UNCHANGED <<lengths, reduce, leading, shapes, x_in, x_mid, x_out>>

\* sfc_cae_adaptive.py 362 / 384: fla[0](a[k]), self.filling_layer(a)
ApplyFirst ==
  /\ pc_bfc = "built"
  /\ IF Val(first_layer).interpolate \/ ContractionAdds(Val(first_layer), shapes[1])
       THEN /\ x_mid' = Forward(Val(first_layer), Fracs(x_in))
            /\ shapes' = Append(shapes, ForwardShape(Val(first_layer), shapes[1]))
            /\ pc_bfc' = "first"
       ELSE /\ pc_bfc' = "RuntimeError"
            /\ UNCHANGED <<x_mid, shapes>>
  /\ UNCHANGED notBfc
  /\ UNCHANGED <<lengths, reduce, first_layer, second_layer, leading, x_in, x_out>>

\* sfc_cae_adaptive.py 708 / 675: fla[1](b[k]), self.expand_extract_layer(b);
\* self.reduce is not consulted
ApplySecond ==
  /\ pc_bfc = "first"
  /\ IF Val(second_layer).interpolate \/ ContractionAdds(Val(second_layer), shapes[2])
       THEN /\ x_out' = Forward(Val(second_layer), x_mid)
            /\ shapes' = Append(shapes, ForwardShape(Val(second_layer), shapes[2]))
            /\ pc_bfc' = "second"
       ELSE /\ pc_bfc' = "RuntimeError"
            /\ UNCHANGED <<x_out, shapes>>
  /\ UNCHANGED notBfc
  /\ UNCHANGED <<lengths, reduce, first_layer, second_layer, leading, x_in, x_mid>>

BfcNext ==
  \/ BuildLayers
  \/ ApplyFirst
  \/ ApplySecond

SpecBfc == BfcInit /\ [][BfcNext]_vars

(***************************************************************************)
(* C2: for L_out = k * (L_in - 1) + 1 with k >= 2, contracting the         *)
(* expansion of x returns x elementwise.                                   *)
(***************************************************************************)
C2_ExactRoundTrip ==
  ( /\ pc_bfc = "second"
    /\ lengths[1] < lengths[2]
    /\ (lengths[2] - 1) % (lengths[1] - 1) = 0
    /\ (lengths[2] - 1) \div (lengths[1] - 1) >= 2 )
  => x_out = Fracs(x_in)

(***************************************************************************)
(* C3: with reduce_strategy "truncate", for every L_in < L_out the forward *)
(* map followed by the inverse map the decoder uses recovers x exactly.    *)
(***************************************************************************)
C3_TruncateRoundTrip ==
  ( /\ pc_bfc = "second"
    /\ reduce = "truncate"
    /\ lengths[1] < lengths[2] )
  => x_out = Fracs(x_in)

(***************************************************************************)
(* Neighbourhood index builder (utils.py 904-1036).                        *)
(***************************************************************************)
MaxAxis == 3

RECURSIVE Prod(_)
Prod(s) == IF s = <<>> THEN 1 ELSE Head(s) * Prod(Tail(s))

\* C-order coordinates (0-based) of flat index f (0-based) in a grid of shape sh
Unravel(f, sh) ==
  [ i \in 1..Len(sh) |-> (f \div Prod(SubSeq(sh, i + 1, Len(sh)))) % sh[i] ]

\* C-order flat index (0-based) of coordinates c
Ravel(c, sh) ==
  LET RECURSIVE Acc(_)
      Acc(i) == IF i = 0 THEN 0 ELSE Acc(i - 1) * sh[i] + c[i]
  IN Acc(Len(sh))

\* torch.arange(N).reshape(shape), flattened
GridFromOne(sh) == [ f \in 1..Prod(sh) |-> f ]
Grid(sh) == [ f \in 1..Prod(sh) |-> f - 1 ]

\* utils.py 918-919: the i-th (0-based) tuple of itertools.product(keys, repeat=ndim),
\* keys = -range .. range
ProductTuple(i, ndim, r) ==
  [ d \in 1..ndim |-> ((i \div Pow(2 * r + 1, ndim - d)) % (2 * r + 1)) - r ]

Zero(ndim) == [ d \in 1..ndim |-> 0 ]

IsZero(t) == \A d \in 1..Len(t) : t[d] = 0

NonZero(t) == ~ IsZero(t)

\* utils.py 920-926: the product list with (0,) * ndim removed
GeneralKeys(ndim, r) ==
  SelectSeq([ i \in 1..Pow(2 * r + 1, ndim) |-> ProductTuple(i - 1, ndim, r) ], NonZero)

\* utils.py 956-961: the index range <<lo, hi>> (0-based, empty when lo > hi) that
\* the slice written to / read from selects on an axis of length n for offset loc_k
SliceTo(n, loc_k) ==
  IF loc_k > 0 THEN <<0, n - loc_k - 1>>
  ELSE IF loc_k < 0 THEN <<Min(-loc_k, n), n - 1>>
  ELSE <<0, n - 1>>

SliceFrom(n, loc_k) ==
  IF loc_k > 0 THEN <<Min(loc_k, n), n - 1>>
  ELSE IF loc_k < 0 THEN <<0, n + loc_k - 1>>
  ELSE <<0, n - 1>>

\* utils.py 936-968: get_neighbour_index on a flattened grid of shape sh
NeighbourIndex(ordering, sh, tuple_i) ==
  [ f \in 1..Len(ordering) |->
      LET c == Unravel(f - 1, sh)
          written == \A i \in 1..Len(sh) :
                        /\ c[i] >= SliceTo(sh[i], tuple_i[i])[1]
                        /\ c[i] <= SliceTo(sh[i], tuple_i[i])[2]
          src == [ i \in 1..Len(sh) |->
                     c[i] - SliceTo(sh[i], tuple_i[i])[1] + SliceFrom(sh[i], tuple_i[i])[1] ]
      IN IF written THEN ordering[Ravel(src, sh) + 1] ELSE ordering[f] ]

\* utils.py 1034: "+ (i+1) * size" for the offset enumerated as i (0-based)
BlockOffsetOneTooFar(i, n) == (i + 2) * n
BlockOffset(i, n) == (i + 1) * n

RECURSIVE Concat(_)
Concat(ss) == IF ss = <<>> THEN <<>> ELSE Head(ss) \o Concat(Tail(ss))

Shapes == UNION { [ 1..d -> 1..MaxAxis ] : d \in 1..3 }

MaxGather == 81

\* A tensor is its shape and its entries in row-major order; indices are 0-based.
At(t, c) == t.flat[Ravel(c, t.shape) + 1]

\* torch.arange(n).reshape(sh): every entry is its own row-major position
Arange(sh) == [ shape |-> sh, flat |-> [ i \in 1..Prod(sh) |-> i - 1 ] ]

\* x.permute(*reversed(range(x.ndim)))
PermuteReversed(t) ==
  LET sh == Reverse(t.shape) IN
    [ shape |-> sh, flat |-> [ i \in 1..Prod(sh) |-> At(t, Reverse(Unravel(i - 1, sh))) ] ]

\* x.reshape(*sh)
Reshape(t, sh) == [ shape |-> sh, flat |-> t.flat ]

\* utils.py 1038-1045
torch_reshape_rowmajor(x, sh) == Reshape(x, sh)
torch_reshape_fortran(x, sh) ==
  PermuteReversed(Reshape(IF Len(x.shape) > 0 THEN PermuteReversed(x) ELSE x, Reverse(sh)))

\* utils.py 1061: x.repeat((1,) * (x.ndim - 1) + (r,))
RepeatLast(x, r) ==
  LET nd == Len(x.shape)
      sh == [ d \in 1..nd |-> IF d = nd THEN x.shape[d] * r ELSE x.shape[d] ]
  IN [ shape |-> sh,
       flat |-> [ i \in 1..Prod(sh) |->
                    LET c == Unravel(i - 1, sh) IN
                      At(x, [ d \in 1..nd |-> IF d = nd THEN c[d] % x.shape[nd] ELSE c[d] ]) ] ]

\* utils.py 1064: xx[..., ordering_list]
IndexLast(xx, ordering_list) ==
  LET nd == Len(xx.shape)
      sh == [ d \in 1..nd |-> IF d = nd THEN Len(ordering_list) ELSE xx.shape[d] ]
  IN [ shape |-> sh,
       flat |-> [ i \in 1..Prod(sh) |->
                    LET c == Unravel(i - 1, sh) IN
                      At(xx, [ d \in 1..nd |-> IF d = nd THEN ordering_list[c[d] + 1]
                                               ELSE c[d] ]) ] ]

\* utils.py 1047-1067, self_concat at its default 1
get_concat_list_md(x, ordering_list, neigh_md) ==
  LET target_shape == x.shape \o << neigh_md >>
      xx == IndexLast(RepeatLast(x, neigh_md), ordering_list)
  IN torch_reshape_fortran(xx, target_shape)

NbrInit ==
  /\ PlanIdle
  /\ BfcIdle
  /\ ItpIdle
  /\ NnIdle
  /\ AeIdle
  /\ KlIdle
  /\ FwIdle
  /\ SfcIdle
  /\ TrainIdle
  /\ TabIdle
  /\ pc_nbr = "keys"
  /\ shape \in Shapes
  /\ nbr_range \in {1, 2}
  /\ direct_neigh \in BOOLEAN
  /\ Ax = <<>>
  /\ order_blocks = <<>>
  /\ order_list = <<>>
  /\ nbr_x = <<>>
  /\ concat_list = <<>>

\* utils.py 918-926: gen_neighbour_keys in general mode (and for ndim = 1)
GenNeighbourKeys ==
  /\ pc_nbr = "keys"
  /\ Len(shape) = 1 \/ ~ direct_neigh
  /\ Ax' = GeneralKeys(Len(shape), nbr_range)
  /\ order_blocks' = << Grid(shape) >>
  /\ pc_nbr' = "blocks"
  /\ UNCHANGED notNbr
  /\ UNCHANGED <<shape, nbr_range, direct_neigh, order_list, nbr_x, concat_list>>

\* utils.py 927-929: with direct_neigh the loop header calls range(ndim), and
\* "range" is the integer parameter of that name: TypeError
GenDirectKeys ==
  /\ pc_nbr = "keys"
  /\ Len(shape) # 1 /\ direct_neigh
  /\ pc_nbr' = "TypeError"
  /\ UNCHANGED notNbr
  /\ UNCHANGED <<shape, nbr_range, direct_neigh, Ax, order_blocks, order_list, nbr_x,
                 concat_list>>

\* utils.py 1033-1034: one iteration of get_neighbourhood_md's loop
NeighbourBlock ==
  /\ pc_nbr = "blocks"
  /\ Len(order_blocks) <= Len(Ax)
  /\ LET i == Len(order_blocks) - 1
         n == Prod(shape)
         neigh == NeighbourIndex(Grid(shape), shape, Ax[i + 1])
     IN order_blocks' = Append(order_blocks,
                               [ f \in 1..n |-> neigh[f] + BlockOffset(i, n) ])
  /\ UNCHANGED notNbr
  /\ UNCHANGED <<pc_nbr, shape, nbr_range, direct_neigh, Ax, order_list, nbr_x, concat_list>>

\* utils.py 1035-1036
NeighbourCat ==
  /\ pc_nbr = "blocks"
  /\ Len(order_blocks) = Len(Ax) + 1
  /\ order_list' = Concat(order_blocks)
  /\ pc_nbr' = "done"
  /\ UNCHANGED notNbr
  /\ UNCHANGED <<shape, nbr_range, direct_neigh, Ax, order_blocks, nbr_x, concat_list>>

\* utils.py 1047-1067 on a tensor with leading axes lead, the table being no
\* longer than MaxGather
ConcatList ==
  /\ pc_nbr = "done"
  /\ Len(order_list) <= MaxGather
  /\ \E lead \in LeadingAxes :
        /\ nbr_x' = Arange(lead \o << Prod(shape) >>)
        /\ concat_list' = get_concat_list_md(nbr_x', order_list, Len(Ax) + 1)
  /\ pc_nbr' = "concat"
  /\ UNCHANGED notNbr
  /\ UNCHANGED <<shape, nbr_range, direct_neigh, Ax, order_blocks, order_list>>

NbrNext ==
  \/ GenNeighbourKeys
  \/ GenDirectKeys
  \/ NeighbourBlock
  \/ NeighbourCat
  \/ ConcatList

SpecNbr == NbrInit /\ [][NbrNext]_vars

total_nodes == Prod(shape)

(***************************************************************************)
(* C4 as stated: every entry of the index table returned by                *)
(* get_neighbourhood_md lies in [0, total_nodes).                          *)
(***************************************************************************)
C4_EntriesBelowNodeCount ==
  (pc_nbr = "done") =>
     \A e \in 1..Len(order_list) : order_list[e] >= 0 /\ order_list[e] < total_nodes

(***************************************************************************)
(* C4 as amended: every entry of the index table lies in                   *)
(* [0, (m + 1) * total_nodes), m the number of offsets: a valid index into *)
(* the node axis tiled m + 1 times.                                        *)
(***************************************************************************)
C4_EntriesBelowTiledLength ==
  (pc_nbr = "done") =>
     \A e \in 1..Len(order_list) :
        order_list[e] >= 0 /\ order_list[e] < (Len(Ax) + 1) * total_nodes

C4_Witness ==
  /\ pc_nbr = "done"
  /\ Len(shape) = 2
  /\ total_nodes > 1
  /\ \E e \in 1..Len(order_list) : order_list[e] >= total_nodes

\* the shifted coordinate clamped into the axis's range
Clamp(v, n) == IF v < 0 THEN 0 ELSE IF v > n - 1 THEN n - 1 ELSE v

(***************************************************************************)
(* C5: the neighbour of a node for a non-zero offset is the node at the    *)
(* shifted position, each coordinate clamped into its axis's range.        *)
(***************************************************************************)
C5_NeighbourIsClampedShift ==
  \A b \in 2..Len(order_blocks) :
     \A f \in 1..total_nodes :
        LET c == Unravel(f - 1, shape)
            shifted == [ i \in 1..Len(shape) |-> Clamp(c[i] + Ax[b - 1][i], shape[i]) ]
        IN order_blocks[b][f] - BlockOffset(b - 2, total_nodes) = Ravel(shifted, shape)

(***************************************************************************)
(* Linear interpolation (utils.py 1348-1474).                              *)
(***************************************************************************)
MaxNodes == 7

TolDenominator == 1000000

\* tol = 1e-6
Tol == <<1, TolDenominator>>

\* utils.py 1394-1397: x_regular[i] = i / (nonods - 1), i 0-based
Regular(i, n) == Frac(i, n - 1)

\* Python's a[i] on a sequence of length n: the 1-based position read, 0 when
\* the index is out of range (IndexError); a negative index counts from the end
PyIndex(i, n) == IF i >= 0 /\ i < n THEN i + 1 ELSE IF i < 0 /\ i >= -n THEN n + i + 1 ELSE 0

\* utils.py 1402: np.floor(float(nonods - 1) * x_l_regular) for target j (0-based).
\* x_l_regular[j] is the float32 nearest to j / (nonods_l - 1); where the exact
\* product is an integer v >= 1 the float product is v or just below v, so the
\* floor is v or v - 1.
\* utils.py 1402-1403: the possible nod_prev_list arrays; low is the set of
\* targets whose floor came out one below the exact product
PrevListsLastNotSet(n, nl) ==
  { [ j \in 1..nl |-> ((j - 1) * (n - 1)) \div (nl - 1) ] }

PrevLists(n, nl) ==
  LET exact == { j \in 1..(nl - 2) : (j * (n - 1)) % (nl - 1) = 0 } IN
    { [ j \in 1..nl |->
          IF j = nl THEN n - 2
          ELSE ((j - 1) * (n - 1)) \div (nl - 1) - (IF (j - 1) \in low THEN 1 ELSE 0) ] :
      low \in SUBSET exact }

\* utils.py 1405-1409: weight_interp[j], clamped into [0, 1]
WeightInterp(j, prev, n, nl) ==
  LET w == FracDiv(FracSub(Regular(j, nl), Regular(prev, n)),
                   FracSub(Regular(prev + 1, n), Regular(prev, n)))
  IN IF FracLess(FracInt(1), w) THEN FracInt(1)
     ELSE IF FracLess(w, FracInt(0)) THEN FracInt(0)
     ELSE w

\* utils.py 1348: whether optimal_back_interpolate returns weights
BackMappedWheneverAsked(n, nl, mb) == mb
BackMapped(n, nl, mb) == n >= 2 * nl /\ mb

\* utils.py 1361-1365: the x_regular positions optimal_back_interpolate reads for
\* the interior targets are all in range
BackIndicesOk(prev, n, nl) ==
  \A j \in 2..(nl - 1) :
     /\ PyIndex(prev[j], n) # 0
     /\ PyIndex(prev[j] + 1, n) # 0
     /\ PyIndex(prev[j] + 2, n) # 0
     /\ PyIndex(prev[j] - 1, n) # 0

\* utils.py 1349-1367: optimal_back_interpolate for the interior target j (0-based):
\* <<w2 * rate_2, w1 * rate_1, w2 * (1 - rate_2), w1 * (1 - rate_1)>>
BackWeights(j, prev, n, nl) ==
  LET next == prev + 1
      xl == Regular(j, nl)
      xr(i) == Regular(PyIndex(i, n) - 1, n)
      clamp(g) == IF FracLess(g, Tol) THEN Tol ELSE g
      gaps_1 == clamp(FracAbs(FracSub(xl, xr(next))))
      gaps_2 == clamp(FracAbs(FracSub(xl, xr(prev))))
      rsum == FracAdd(FracInv(gaps_1), FracInv(gaps_2))
      w1 == FracDiv(FracInv(gaps_1), rsum)
      w2 == FracDiv(FracInv(gaps_2), rsum)
      rate_1 == FracSub(FracInt(1), FracDiv(FracSub(xr(next), xl),
                                            FracSub(xr(next), xr(next + 1))))
      rate_2 == FracSub(FracInt(1), FracDiv(FracSub(xr(prev), xl),
                                            FracSub(xr(prev), xr(prev - 1))))
  IN << FracMul(w2, rate_2), FracMul(w1, rate_1),
        FracMul(w2, FracSub(FracInt(1), rate_2)), FracMul(w1, FracSub(FracInt(1), rate_1)) >>

\* utils.py 1411-1412: (weight_prev, weight_next) from weight_interp
PrevNextWeightsSwapped(w) == << w, FracSub(FracInt(1), w) >>
PrevNextWeights(w) == << FracSub(FracInt(1), w), w >>

\* utils.py 1371-1435: linear_interpolate_python_weights, given the floors taken
InterpolateWeights(prev, n, nl, mb) ==
  [ nod_prev_list |-> prev,
    nod_next_list |-> [ j \in 1..nl |-> prev[j] + 1 ],
    weight_prev |-> [ j \in 1..nl |-> PrevNextWeights(WeightInterp(j - 1, prev[j], n, nl))[1] ],
    weight_next |-> [ j \in 1..nl |-> PrevNextWeights(WeightInterp(j - 1, prev[j], n, nl))[2] ],
    back_mapping_params |->
      IF BackMapped(n, nl, mb)
        THEN Some([ j \in 1..(nl - 2) |-> BackWeights(j, prev[j + 1], n, nl) ])
        ELSE None ]

\* utils.py 1460-1473: the positions of x that linear_interpolate_python reads
ReadsOk(pr, n) ==
  /\ \A j \in 1..Len(pr.nod_prev_list) :
        PyIndex(pr.nod_prev_list[j], n) # 0 /\ PyIndex(pr.nod_next_list[j], n) # 0
  /\ pr.back_mapping_params # None =>
        \A j \in 2..(Len(pr.nod_prev_list) - 1) :
           /\ PyIndex(pr.nod_prev_list[j] - 1, n) # 0
           /\ PyIndex(pr.nod_next_list[j] + 1, n) # 0

\* utils.py 1437-1474: linear_interpolate_python
LinearInterpolate(x, pr) ==
  LET n == Len(x)
      nl == Len(pr.nod_prev_list)
      at(i) == x[PyIndex(i, n)]
      two(j) == FracAdd(FracMul(at(pr.nod_prev_list[j]), pr.weight_prev[j]),
                        FracMul(at(pr.nod_next_list[j]), pr.weight_next[j]))
      four(j) ==
        LET b == Val(pr.back_mapping_params)[j - 1] IN
          FracAdd(FracAdd(FracMul(b[1], at(pr.nod_prev_list[j])),
                          FracMul(b[3], at(pr.nod_prev_list[j] - 1))),
                  FracAdd(FracMul(b[2], at(pr.nod_next_list[j])),
                          FracMul(b[4], at(pr.nod_next_list[j] + 1))))
  IN [ j \in 1..nl |->
         IF pr.back_mapping_params # None /\ j > 1 /\ j < nl THEN four(j)
         ELSE IF j = nl THEN x[n]
         ELSE two(j) ]

ItpInit ==
  /\ PlanIdle
  /\ BfcIdle
  /\ NbrIdle
  /\ NnIdle
  /\ AeIdle
  /\ KlIdle
  /\ FwIdle
  /\ SfcIdle
  /\ TrainIdle
  /\ TabIdle
  /\ pc_itp = "new"
  /\ nonods \in 2..MaxNodes
  /\ nonods_l \in 2..MaxNodes
  /\ map_back \in BOOLEAN
  /\ itp_x \in [ 1..nonods -> SeqValues ]
  /\ itp_params = None
  /\ itp_out = <<>>

\* utils.py 1371-1435, the arrays being in range
ComputeWeights ==
  /\ pc_itp = "new"
  /\ \E prev \in PrevLists(nonods, nonods_l) :
        IF BackMapped(nonods, nonods_l, map_back) => BackIndicesOk(prev, nonods, nonods_l)
          THEN /\ itp_params' = Some(InterpolateWeights(prev, nonods, nonods_l, map_back))
               /\ pc_itp' = "weights"
          ELSE /\ pc_itp' = "IndexError"
               /\ UNCHANGED itp_params
  /\ UNCHANGED notItp
  /\ UNCHANGED <<nonods, nonods_l, map_back, itp_x, itp_out>>

\* utils.py 1437-1474
Interpolate ==
  /\ pc_itp = "weights"
  /\ IF ReadsOk(Val(itp_params), nonods)
       THEN /\ itp_out' = LinearInterpolate(Fracs(itp_x), Val(itp_params))
            /\ pc_itp' = "done"
       ELSE /\ pc_itp' = "IndexError"
            /\ UNCHANGED itp_out
  /\ UNCHANGED notItp
  /\ UNCHANGED <<nonods, nonods_l, map_back, itp_x, itp_params>>

ItpNext ==
  \/ ComputeWeights
  \/ Interpolate

SpecItp == ItpInit /\ [][ItpNext]_vars

(***************************************************************************)
(* C6: with the weights computed for n_from = n_to = n (n >= 2),           *)
(* linear_interpolate_python returns its input unchanged.                  *)
(***************************************************************************)
C6_SameLengthIsIdentity ==
  (pc_itp \in {"done", "IndexError"} /\ nonods = nonods_l) =>
     /\ pc_itp = "done"
     /\ itp_out = Fracs(itp_x)

C6_Witness ==
  /\ pc_itp = "done"
  /\ nonods = nonods_l
  /\ nonods >= 4
  /\ \E j \in 2..(nonods - 1) : Val(itp_params).nod_prev_list[j] = j - 2
  /\ \E i, j \in 1..nonods : itp_x[i] # itp_x[j]
  /\ itp_out = Fracs(itp_x)

(***************************************************************************)
(* NearestNeighbouring_md (utils.py 1069-1105).  A tensor is indexed       *)
(* [channel][node][slot]; the batch axis is carried element-wise and left  *)
(* out.                                                                    *)
(***************************************************************************)
MaxNnSize == 2

MaxNnChannels == 2

MaxNeigh == 3

MaxConcat == 2

MaxEntries == 10

\* utils.py 1097: the initial weight when initial_weight is None
DefaultWeightWithoutConcat(n, c) == Frac(1, n)
DefaultWeight(n, c) == Frac(1, n * c)

\* utils.py 1098-1099: self.weight_shape
WeightShape(sz, ch, n, c) == IF ch > 1 THEN <<ch, sz, n * c>> ELSE <<sz, n * c>>

\* utils.py 1100: torch.ones(self.weight_shape) * initial_weight
Weights(sz, ch, n, c) ==
  LET row == [ k \in 1..(n * c) |-> DefaultWeight(n, c) ]
      plane == [ i \in 1..sz |-> row ]
  IN IF ch > 1 THEN [ h \in 1..ch |-> plane ] ELSE plane

\* the shape of a tensor [channel][node][slot]
TensorShape(t) == <<Len(t), Len(t[1]), Len(t[1][1])>>

\* utils.py 1104: whether tensor_list *= self.weights broadcasts in place
Broadcasts(tshape, wshape) ==
  /\ tshape[3] = Last(wshape)
  /\ tshape[2] = wshape[Len(wshape) - 1]
  /\ Len(wshape) = 3 => tshape[1] = wshape[1]

\* utils.py 1104: the weight that meets entry [h][i][k]
WeightAt(w, wshape, h, i, k) == IF Len(wshape) = 3 THEN w[h][i][k] ELSE w[i][k]

RECURSIVE FracSum(_)
\* utils.py 1105: torch.sum(..., -1) over one row
FracSum(row) == IF row = <<>> THEN FracInt(0) ELSE FracAdd(row[1], FracSum(Tail(row)))

Tensors(ch, sz, k) == [ 1..ch -> [ 1..sz -> [ 1..k -> SeqValues ] ] ]

NnArgs ==
  { a \in [ size : 1..MaxNnSize, channels : 1..MaxNnChannels, tensor_channels : 1..MaxNnChannels,
            num_neigh_md : 1..MaxNeigh, self_concat : 1..MaxConcat, slots : 1..(MaxNeigh * MaxConcat) ] :
      /\ a.size * a.tensor_channels * a.slots <= MaxEntries
      /\ a.slots \in {a.num_neigh_md * a.self_concat, a.num_neigh_md} }

NnInit ==
  /\ PlanIdle
  /\ BfcIdle
  /\ NbrIdle
  /\ ItpIdle
  /\ AeIdle
  /\ KlIdle
  /\ FwIdle
  /\ SfcIdle
  /\ TrainIdle
  /\ TabIdle
  /\ pc_nn = "new"
  /\ \E a \in NnArgs :
        /\ nn_size = a.size
        /\ nn_channels = a.channels
        /\ num_neigh_md = a.num_neigh_md
        /\ self_concat = a.self_concat
        /\ gathered \in Tensors(a.tensor_channels, a.size, a.slots)
  /\ tensor_list = [ h \in 1..Len(gathered) |->
                       [ i \in 1..nn_size |-> Fracs(gathered[h][i]) ] ]
  /\ nn_weights = <<>>
  /\ nn_bias = <<>>
  /\ nn_out = <<>>

\* utils.py 1090-1101: __init__ with initial_weight = None
NearestNeighbouringInit ==
  /\ pc_nn = "new"
  /\ nn_weights' = Weights(nn_size, nn_channels, num_neigh_md, self_concat)
  /\ nn_bias' = [ i \in 1..nn_size |-> FracInt(0) ]
  /\ pc_nn' = "built"
  /\ UNCHANGED notNn
  /\ UNCHANGED <<nn_size, nn_channels, num_neigh_md, self_concat, gathered, tensor_list, nn_out>>

\* utils.py 1103-1105: forward
NearestNeighbouringForward ==
  /\ pc_nn = "built"
  /\ LET wshape == WeightShape(nn_size, nn_channels, num_neigh_md, self_concat)
         tshape == TensorShape(tensor_list)
         product == [ h \in 1..tshape[1] |-> [ i \in 1..tshape[2] |-> [ k \in 1..tshape[3] |->
                       FracMul(tensor_list[h][i][k], WeightAt(nn_weights, wshape, h, i, k)) ] ] ]
     IN IF Broadcasts(tshape, wshape)
          THEN /\ tensor_list' = product
               /\ nn_out' = [ h \in 1..tshape[1] |-> [ i \in 1..tshape[2] |->
                               FracAdd(FracSum(product[h][i]), nn_bias[i]) ] ]
               /\ pc_nn' = "done"
          ELSE /\ pc_nn' = "RuntimeError"
               /\ UNCHANGED <<tensor_list, nn_out>>
  /\ UNCHANGED notNn
  /\ UNCHANGED <<nn_size, nn_channels, num_neigh_md, self_concat, nn_weights, nn_bias, gathered>>

NnNext ==
  \/ NearestNeighbouringInit
  \/ NearestNeighbouringForward

SpecNn == NnInit /\ [][NnNext]_vars

RECURSIVE IntSum(_)
IntSum(row) == IF row = <<>> THEN 0 ELSE row[1] + IntSum(Tail(row))

(***************************************************************************)
(* C7: a layer with the default weights and zero bias returns, for every   *)
(* channel and node, the arithmetic mean of the num_neigh_md * self_concat *)
(* values gathered on the last axis.                                       *)
(***************************************************************************)
C7_DefaultLayerIsMean ==
  (pc_nn \in {"done", "RuntimeError"} /\ Len(gathered[1][1]) = num_neigh_md * self_concat
     /\ (nn_channels > 1 => Len(gathered) = nn_channels)) =>
     /\ pc_nn = "done"
     /\ \A h \in 1..Len(gathered) : \A i \in 1..nn_size :
           nn_out[h][i] = Frac(IntSum(gathered[h][i]), num_neigh_md * self_concat)

C7_Witness ==
  /\ pc_nn = "done"
  /\ self_concat > 1
  /\ num_neigh_md > 1
  /\ nn_channels > 1
  /\ \E k \in 1..(num_neigh_md * self_concat) : gathered[1][1][k] # gathered[1][1][1]
  /\ nn_out[1][1] = Frac(IntSum(gathered[1][1]), num_neigh_md * self_concat)

(***************************************************************************)
(* The autoencoder (sfc_cae_adaptive.py).  Tensors are carried as shapes   *)
(* together with the data they were computed from; the model covers        *)
(* sfc_mapping_to_structured = None, filling_paras without length          *)
(* adapters, and forward calls that pass coordinates exactly when the      *)
(* encoder was configured with them.                                       *)
(***************************************************************************)
ShuffleSpKernelSize == 31

ShuffleSpChannel == 32

Has(obj, name) == name \in DOMAIN obj

\* obj.name = v
Assign(obj, name, v) == [ n \in DOMAIN obj \cup {name} |-> IF n = name THEN v ELSE obj[n] ]

\* the first of the names that obj has no attribute for, or None
RECURSIVE Missing(_, _)
Missing(obj, names) ==
  IF names = <<>> THEN None
  ELSE IF ~ Has(obj, Head(names)) THEN Some(Head(names))
  ELSE Missing(obj, Tail(names))

\* utils.py 1582-1591: the conv-sizing loop
RECURSIVE ConvLoop(_, _)
ConvLoop(st, a) ==
  IF ~ ConvGuard(st.size, a.ndim, Last(st.channels), a.sfc_nums) THEN st
  ELSE LET sz == ConvOut(st.size, a.ksp[1], a.ksp[3], a.ksp[2])
           grow == a.num_final_channels >= st.input_channel * a.increase_multi
           ic == IF grow THEN st.input_channel * a.increase_multi ELSE st.input_channel
       IN ConvLoop([ size |-> sz,
                     input_channel |-> ic,
                     conv_size |-> Append(st.conv_size, sz),
                     output_paddings |-> Append(st.output_paddings,
                                                OutPad(sz, a.ksp[1], a.ksp[3], a.ksp[2])),
                     channels |-> Append(st.channels,
                                         IF grow THEN ic ELSE a.num_final_channels) ], a)

\* utils.py 1600-1603: the FC-sizing loop
RECURSIVE FcLoop(_, _, _, _)
FcLoop(sz, fc, s, d) ==
  IF ~ FcGuard(sz, s, d) THEN fc
  ELSE LET s2 == sz \div s IN
         IF s2 * s < 100 /\ s2 < 50 THEN fc ELSE FcLoop(s2, Append(fc, s2), s, d)

\* utils.py 1542-1606, for arguments on which its loops end
find_size_conv_layers_and_fc_layers(a) ==
  LET k == a.ksp[1]
      s == a.ksp[2]
      p == a.ksp[3]
      s1 == ConvOut(a.size, k, p, s)
      start == IF a.first_sp_channel # None
                 THEN [ size |-> s1,
                        input_channel |-> a.input_channel * a.increase_multi,
                        conv_size |-> <<a.size, s1>>,
                        output_paddings |-> << OutPad(a.size, k, p, s), OutPad(s1, k, p, s) >>,
                        channels |-> << Val(a.first_sp_channel),
                                        a.input_channel * a.increase_multi >> ]
                 ELSE [ size |-> a.size,
                        input_channel |-> a.input_channel,
                        conv_size |-> <<a.size>>,
                        output_paddings |-> << OutPad(a.size, k, p, s) >>,
                        channels |-> <<a.input_channel>> ]
      st == ConvLoop(start, a)
      flat == Pow(st.size, a.ndim)
      first == flat * a.sfc_nums * a.num_final_channels
  IN [ conv_size |-> st.conv_size,
       size_conv |-> Len(st.channels) - 1,
       size_fc |-> Append(FcLoop(first, <<first>>, IF s < 4 THEN 8 ELSE s, a.dims_latent),
                          a.dims_latent),
       channels |-> st.channels,
       inv_conv_start |-> flat,
       output_paddings |-> RetPaddings(st.output_paddings) ]

\* sfc_cae_adaptive.py 185-194: kernel_size, stride, padding, increase_multi
Kernel(dimension) ==
  IF dimension = 2 THEN [ ksp |-> <<32, 4, 16>>, increase_multi |-> 2 ]
  ELSE [ ksp |-> <<176, 8, 88>>, increase_multi |-> 4 ]

\* sfc_cae_adaptive.py 112-156: what the coords branch, or its else, assigns
CoordsAttrs(c) ==
  IF c.coords_dimension # 0
    THEN LET comps == c.components + c.coords_dimension
             shuffle == c.nearest_neighbouring /\ ~ c.ban_shuffle_sp
             decrease == c.decrease_in_channel /\ shuffle
         IN [ coords |-> Some("coords"),
              coords_dim |-> c.coords_dimension,
              components |-> comps,
              ban_shuffle_sp |-> c.ban_shuffle_sp,
              shuffle_sp_kernel_size |-> ShuffleSpKernelSize,
              shuffle_sp_padding |-> ShuffleSpKernelSize \div 2,
              shuffle_sp_channel |-> ShuffleSpChannel,
              first_conv_channel |-> IF decrease THEN Some(ShuffleSpChannel) ELSE None,
              input_channel |-> IF ~ decrease /\ shuffle THEN ShuffleSpChannel
                                ELSE comps * c.self_concat,
              num_final_channels |-> IF ~ decrease /\ shuffle
                                       THEN Max(DefaultFinalChannels, ShuffleSpChannel)
                                       ELSE DefaultFinalChannels,
              coords_option |-> c.coords_option,
              extract_by_sp |-> c.extract_by_sp ]
    ELSE [ coords |-> None,
           coords_dim |-> 0,
           components |-> c.components,
           first_conv_channel |-> None,
           ban_shuffle_sp |-> TRUE,
           input_channel |-> c.components * c.self_concat,
           num_final_channels |-> DefaultFinalChannels ]

\* sfc_cae_adaptive.py 236-239: int(channels[i] * coords_dim / components)
CoordsChannels(chs, cd, comps) ==
  [ i \in 1..Len(chs) |-> (chs[i] * cd) \div comps ]

\* sfc_cae_adaptive.py 59-320: the encoder after __init__
EncoderAttrs(c) ==
  LET ca == CoordsAttrs(c)
      kn == Kernel(c.dimension)
      pl == find_size_conv_layers_and_fc_layers(
              [ size |-> c.input_size, ksp |-> kn.ksp, dims_latent |-> c.dims_latent,
                sfc_nums |-> c.sfc_nums, input_channel |-> ca.input_channel,
                increase_multi |-> kn.increase_multi,
                num_final_channels |-> ca.num_final_channels,
                first_sp_channel |-> ca.first_conv_channel, ndim |-> 1 ])
      base == [ NN |-> c.nearest_neighbouring,
                dims_latent |-> c.dims_latent,
                dimension |-> c.dimension,
                input_size |-> c.input_size,
                self_concat |-> c.self_concat,
                variational |-> c.variational,
                sfc_nums |-> c.sfc_nums,
                num_neigh |-> 3,
                second_sfc |-> None,
                share_sp_weights |-> FALSE,
                share_conv_weights |-> c.share_conv_weights,
                collect_loss_inside |-> c.collect_loss_inside,
                interpolate_num |-> None,
                batch_normalisation |-> FALSE,
                kernel_size |-> kn.ksp[1],
                stride |-> kn.ksp[2],
                padding |-> kn.ksp[3],
                increase_multi |-> kn.increase_multi,
                num_neigh_md |-> 3,
                shape |-> <<c.input_size>> ]
      all == (ca @@ base) @@ pl
  IN IF ca.coords # None
       THEN Assign(all, "coords_channels",
                   CoordsChannels(pl.channels, ca.coords_dim, ca.components))
       ELSE all

\* sfc_cae_adaptive.py 466-530: what the decoder copies from the encoder
DecoderPassed(enc, output_linear, reduce_strategy) ==
  LET base == [ NN |-> enc.NN,
                variational |-> enc.variational,
                dims_latent |-> enc.dims_latent,
                dimension |-> enc.dimension,
                kernel_size |-> enc.kernel_size,
                stride |-> enc.stride,
                padding |-> enc.padding,
                increase_multi |-> enc.increase_multi,
                input_size |-> enc.input_size,
                components |-> enc.components,
                self_concat |-> enc.self_concat,
                num_final_channels |-> enc.num_final_channels,
                output_linear |-> output_linear,
                size_conv |-> enc.size_conv,
                inv_conv_start |-> enc.inv_conv_start,
                input_channel |-> enc.components * enc.self_concat,
                sfc_nums |-> enc.sfc_nums,
                shape |-> enc.shape,
                collect_loss_inside |-> enc.collect_loss_inside,
                interpolate_num |-> enc.interpolate_num,
                batch_normalisation |-> enc.batch_normalisation,
                reduce |-> reduce_strategy,
                share_sp_weights |-> enc.share_sp_weights,
                share_conv_weights |-> enc.share_conv_weights,
                num_neigh |-> enc.num_neigh,
                inv_second_sfc |-> None,
                init_convTrans_shape |-> <<enc.num_final_channels, Last(enc.conv_size)>>,
                num_neigh_md |-> enc.num_neigh_md ]
  IN IF enc.coords # None
       THEN [ coords |-> enc.coords,
              coords_dim |-> enc.coords_dim,
              coords_option |-> enc.coords_option,
              ban_shuffle_sp |-> enc.ban_shuffle_sp,
              shuffle_sp_kernel_size |-> enc.shuffle_sp_kernel_size,
              shuffle_sp_padding |-> enc.shuffle_sp_padding,
              shuffle_sp_channel |-> enc.shuffle_sp_channel,
              coords_channels |-> enc.coords_channels,
              extract_by_sp |-> enc.extract_by_sp ] @@ base
       ELSE base

\* sfc_cae_adaptive.py 544-601: the decoder's own attributes that the rest of
\* __init__ reads, in the order it reads them
DecoderInitReads(dec) ==
  LET configured == Has(dec, "coords") /\ dec.coords # None
      inConvs == IF dec.sfc_nums >= 1 /\ dec.size_conv >= 1
                   THEN <<"coords">> \o (IF configured THEN <<"coords_option">> ELSE <<>>)
                   ELSE <<>>
      inSps == IF dec.NN
                 THEN <<"coords">> \o
                      (IF configured THEN <<"extract_by_sp", "ban_shuffle_sp">> ELSE <<>>)
                 ELSE <<>>
  IN inConvs \o inSps

\* sfc_cae_adaptive.py 578-601: the sparse layer of each branch
DecoderSps(dec) ==
  LET extract == dec.coords # None /\ dec.extract_by_sp
      out_channel == IF extract THEN dec.components - dec.coords_dim ELSE dec.components
      concats == IF extract THEN dec.self_concat * dec.coords_dim ELSE dec.self_concat
  IN IF dec.coords # None /\ ~ dec.ban_shuffle_sp
       THEN [ layer |-> "ConvTranspose1d", in_channel |-> dec.shuffle_sp_channel,
              out_channel |-> out_channel, concats |-> concats ]
       ELSE [ layer |-> "NearestNeighbouring_md", in_channel |-> 0,
              out_channel |-> out_channel, concats |-> concats ]

Batches == {"A", "B", "C"}

\* the number of snapshots of a batch
BatchLen(k) == IF k = "C" THEN 2 ELSE 4

Raise(exception, enc, dec) ==
  [ raised |-> exception, value |-> None, enc |-> enc, dec |-> dec ]

\* utils.py 229-248: the length sparsify(array, sparse_n) returns for an array of
\* length ln >= sparse_n
SparsifyLen(ln, sparse_n) ==
  LET gap == ln \div sparse_n
      remain == ln - sparse_n * gap
      sp == (ln + gap - 1) \div gap
      left_pad == (remain + 1) \div 2
      right_pad == remain - left_pad
      small_gap_n == sp - sparse_n + remain
      small_gap_lp == (small_gap_n + 1) \div 2
      small_gap_rp == small_gap_n - small_gap_lp
      kept == IF small_gap_rp = 0 THEN 0 ELSE Max(0, sp - small_gap_lp - small_gap_rp)
      spp == (ln + gap) \div (gap + 1)
  IN IF remain = 0 THEN sp
     ELSE Min(left_pad, spp) + kept + (IF right_pad # 0 THEN Min(right_pad, spp) ELSE 0)

\* sfc_cae_adaptive.py 322-332: the lengths of the coarsened coordinates
CoarsenedLens(enc) ==
  [ j \in 1..Len(enc.conv_size) |->
      IF j = 1 THEN enc.input_size ELSE SparsifyLen(enc.input_size, enc.conv_size[j]) ]

\* sfc_cae_adaptive.py 410-414: conv layers j.. of a branch, on ch channels of length ln
RECURSIVE EncConvs(_, _, _, _)
EncConvs(enc, j, ch, ln) ==
  IF j > enc.size_conv THEN [ raised |-> "none", ch |-> ch, ln |-> ln ]
  ELSE LET opt2 == enc.coords # None /\ enc.coords_option = 2
           extra == IF opt2 THEN enc.coords_dim * (enc.coords_channels[j] \div enc.coords_dim)
                    ELSE 0
           in_channels == enc.channels[j] + (IF opt2 THEN enc.coords_channels[j] ELSE 0)
       IN IF opt2 /\ enc.ctoa.lens[j] # ln THEN [ raised |-> "RuntimeError", ch |-> ch, ln |-> ln ]
          ELSE IF ch + extra # in_channels THEN [ raised |-> "RuntimeError", ch |-> ch, ln |-> ln ]
          ELSE EncConvs(enc, j + 1, enc.channels[j + 1],
                        ConvOut(ln, enc.kernel_size, enc.padding, enc.stride))

\* sfc_cae_adaptive.py 334-438: encoder.forward on batch k
EncoderForwardOn(enc0, dec, k) ==
  LET n == enc0.input_size
      data == enc0.components - enc0.coords_dim
      configured == enc0.coords # None
      opt2 == configured /\ enc0.coords_option = 2
      e1 == IF enc0.collect_loss_inside THEN Assign(enc0, "a_s", <<>>) ELSE enc0
      e2 == IF opt2
              THEN Assign(e1, "ctoa", [ of |-> k, batch |-> BatchLen(k), lens |-> CoarsenedLens(e1) ])
              ELSE e1
      a == [ shape |-> <<BatchLen(k), data, n>>, of |-> k ]
      e3 == IF e2.collect_loss_inside THEN Assign(e2, "a_s", Append(e2.a_s, a)) ELSE e2
      ch1 == enc0.components * enc0.self_concat
      ch2 == IF enc0.NN /\ configured /\ ~ enc0.ban_shuffle_sp THEN enc0.shuffle_sp_channel ELSE ch1
      sparse_ok == ~ enc0.NN \/ (configured /\ ~ enc0.ban_shuffle_sp)
                    \/ Broadcasts(<<ch1, n, enc0.num_neigh>>,
                                  WeightShape(n, ch1, enc0.num_neigh_md, 1))
      convs == EncConvs(e3, 1, ch2, n)
      flat == enc0.sfc_nums * convs.ch * convs.ln
      e4 == IF e3.collect_loss_inside
              THEN Assign(e3, "a_s", [ i \in 1..e3.sfc_nums |-> a ]) ELSE e3
  IN IF ~ sparse_ok THEN Raise("RuntimeError", e3, dec)
     ELSE IF convs.raised # "none" THEN Raise(convs.raised, e3, dec)
     ELSE IF flat # enc0.size_fc[1] THEN Raise("RuntimeError", e4, dec)
     ELSE [ raised |-> "none",
            value |-> Some([ shape |-> <<BatchLen(k), enc0.dims_latent>>, of |-> k,
                             kl_div |-> enc0.variational ]),
            enc |-> e4, dec |-> dec ]

\* torch.chunk(t, chunks, dim = 1) on ch channels: the sizes of the chunks
ChunkSizes(ch, chunks) ==
  LET each == (ch + chunks - 1) \div chunks
      count == (ch + each - 1) \div each
  IN [ i \in 1..count |-> IF i < count THEN each ELSE ch - each * (count - 1) ]

\* whether two shapes of the same rank broadcast against each other
BroadcastTogether(s, t) ==
  /\ Len(s) = Len(t)
  /\ \A i \in 1..Len(s) : s[i] = t[i] \/ s[i] = 1 \/ t[i] = 1

\* sfc_cae_adaptive.py 652-656: transposed conv layers j.. of a branch, on a batch
\* of bl tensors of ch channels and length ln
RECURSIVE DecConvs(_, _, _, _, _, _)
DecConvs(dec, enc, j, bl, ch, ln) ==
  IF j > dec.size_conv THEN [ raised |-> "none", ch |-> ch, ln |-> ln ]
  ELSE LET opt2 == dec.coords # None /\ dec.coords_option = 2
           last == Len(enc.channels)
           cc == IF opt2 THEN dec.coords_channels[last - j + 1] ELSE 0
           extra == IF opt2 THEN dec.coords_dim * (cc \div dec.coords_dim) ELSE 0
           in_channels == enc.channels[last - j + 1] + cc
           fails == [ raised |-> "RuntimeError", ch |-> ch, ln |-> ln ]
       IN IF opt2 /\ (dec.ctoa.batch # bl \/ dec.ctoa.lens[last - j + 1] # ln) THEN fails
          ELSE IF ch + extra # in_channels THEN fails
          ELSE DecConvs(dec, enc, j + 1, bl, enc.channels[last - j],
                        TransOut(ln, dec.kernel_size, enc.padding, dec.stride,
                                 enc.output_paddings[j]))

\* sfc_cae_adaptive.py 680-692: the sparse layer of a branch, or the sum over the
\* self-concatenated copies, on ch channels of length ln
DecSparse(dec, ch, ln) ==
  LET fails == [ raised |-> "RuntimeError", ch |-> ch ]
  IN IF dec.NN
       THEN IF dec.coords # None /\ ~ dec.ban_shuffle_sp
              THEN IF ch = dec.sps.in_channel
                     THEN [ raised |-> "none", ch |-> dec.sps.out_channel ] ELSE fails
              ELSE LET concats == IF dec.extract_by_sp THEN dec.self_concat * dec.coords_dim
                                  ELSE dec.self_concat
                       sizes == ChunkSizes(ch, concats)
                       tt_list == IF concats > 1
                                    THEN <<sizes[1], ln, dec.num_neigh * Len(sizes)>>
                                    ELSE <<ch, ln, dec.num_neigh>>
                   IN IF concats > 1 /\ \E i \in 1..Len(sizes) : sizes[i] # sizes[1] THEN fails
                      ELSE IF ~ Broadcasts(tt_list,
                                           WeightShape(dec.input_size, dec.sps.out_channel,
                                                       dec.num_neigh_md, dec.sps.concats))
                             THEN fails
                      ELSE [ raised |-> "none", ch |-> tt_list[1] ]
       ELSE IF dec.self_concat > 1
              THEN LET sizes == ChunkSizes(ch, dec.self_concat) IN
                     IF \A i \in 1..Len(sizes) : sizes[i] = sizes[1] \/ sizes[i] = 1
                       THEN [ raised |-> "none", ch |-> sizes[1] ] ELSE fails
              ELSE [ raised |-> "none", ch |-> ch ]

\* sfc_cae_adaptive.py 627-731: decoder.forward on latent x with the orderings of
\* batch k
DecoderForwardOn(enc, dec0, x, k) ==
  LET bl == x.shape[1]
      d1 == IF dec0.collect_loss_inside THEN Assign(dec0, "loss", <<>>) ELSE dec0
      opt2 == Has(d1, "coords") /\ d1.coords # None /\ d1.coords_option = 2
      d2 == IF opt2 /\ Has(enc, "ctoa") THEN Assign(d1, "ctoa", enc.ctoa) ELSE d1
      convs == DecConvs(d2, enc, 1, bl, d2.init_convTrans_shape[1], d2.init_convTrans_shape[2])
      sparse == DecSparse(d2, convs.ch, convs.ln)
      ch == IF d2.extract_by_sp THEN sparse.ch
            ELSE Min(sparse.ch, d2.components - d2.coords_dim)
      b == <<bl, ch, convs.ln>>
      d3 == IF d2.collect_loss_inside
              THEN Assign(d2, "loss", [ i \in 1..d2.sfc_nums |-> <<x.of, enc.a_s[i].of>> ])
              ELSE d2
      each == IF ch = 1 THEN <<convs.ln>> ELSE <<ch, convs.ln>>
  IN IF ~ Has(d1, "coords") THEN Raise("AttributeError", enc, d1)
     ELSE IF opt2 /\ ~ Has(enc, "ctoa") THEN Raise("AttributeError", enc, d1)
     ELSE IF convs.raised # "none" THEN Raise(convs.raised, enc, d2)
     ELSE IF sparse.raised # "none" THEN Raise(sparse.raised, enc, d2)
     ELSE IF d2.collect_loss_inside /\ ~ Has(enc, "a_s") THEN Raise("AttributeError", enc, d2)
     ELSE IF d2.collect_loss_inside /\ Len(enc.a_s) < d2.sfc_nums THEN Raise("IndexError", enc, d2)
     ELSE IF d2.collect_loss_inside /\ ~ BroadcastTogether(b, enc.a_s[1].shape)
            THEN Raise("RuntimeError", enc, d2)
     ELSE [ raised |-> "none",
            value |-> Some([ count |-> bl, each |-> each,
                             of |-> [ x |-> x.of,
                                      ctoa |-> IF opt2 /\ d3.size_conv >= 1
                                                 THEN Some(d3.ctoa.of) ELSE None ] ]),
            enc |-> enc, dec |-> d3 ]

\* sfc_cae_adaptive.py 807-818: SFC_CAE_Adaptive.forward on batch k
AutoencoderForwardOn(enc, dec, k) ==
  LET z == EncoderForwardOn(enc, dec, k) IN
    IF z.raised # "none" THEN z
    ELSE DecoderForwardOn(z.enc, dec, Val(z.value), k)

\* the latent handed to decoder.forward for batch k
Latent(enc, k) == [ shape |-> <<BatchLen(k), enc.dims_latent>>, of |-> k ]

Outcome(r) == [ raised |-> r.raised, value |-> r.value ]

AeConfigs ==
  { c \in [ input_size : {64, 128}, dimension : {2, 3}, components : {1, 2},
            self_concat : {1, 2}, nearest_neighbouring : BOOLEAN, dims_latent : {16},
            sfc_nums : {1, 2}, variational : BOOLEAN, coords_dimension : {0, 2},
            ban_shuffle_sp : BOOLEAN, decrease_in_channel : BOOLEAN,
            coords_option : {1, 2}, extract_by_sp : BOOLEAN,
            collect_loss_inside : BOOLEAN, share_conv_weights : {FALSE} ] :
      c.coords_dimension = 0 =>
        /\ ~ c.ban_shuffle_sp
        /\ ~ c.decrease_in_channel
        /\ c.coords_option = 1
        /\ ~ c.extract_by_sp }

AeInit ==
  /\ PlanIdle
  /\ BfcIdle
  /\ NbrIdle
  /\ ItpIdle
  /\ NnIdle
  /\ KlIdle
  /\ FwIdle
  /\ SfcIdle
  /\ TrainIdle
  /\ TabIdle
  /\ pc_ae = "new"
  /\ cfg \in AeConfigs
  /\ encoder = <<>>
  /\ decoder = <<>>
  /\ ae_out = None
  /\ dec_results = {}

\* sfc_cae_adaptive.py 783-796: SFC_CAE_Encoder_Adaptive.__init__
EncoderInit ==
  /\ pc_ae = "new"
  /\ encoder' = EncoderAttrs(cfg)
  /\ pc_ae' = "encoder"
  /\ UNCHANGED notAe
  /\ UNCHANGED <<cfg, decoder, ae_out, dec_results>>

\* sfc_cae_adaptive.py 444-625: the decoder after __init__, or the exception raised
DecoderAttrs(enc) ==
  LET passed == DecoderPassed(enc, FALSE, "truncate") IN
    IF Missing(passed, DecoderInitReads(passed)) # None
      THEN [ raised |-> "AttributeError", dec |-> <<>> ]
      ELSE [ raised |-> "none",
             dec |-> IF passed.NN THEN Assign(passed, "sps", DecoderSps(passed))
                     ELSE passed ]

\* sfc_cae_adaptive.py 797: SFC_CAE_Decoder_Adaptive.__init__
DecoderInit ==
  /\ pc_ae = "encoder"
  /\ LET r == DecoderAttrs(encoder) IN
       /\ pc_ae' = IF r.raised = "none" THEN "built" ELSE r.raised
       /\ decoder' = r.dec
  /\ UNCHANGED notAe
  /\ UNCHANGED <<cfg, encoder, ae_out, dec_results>>

\* sfc_cae_adaptive.py 807-818
AutoencoderForward(k) ==
  /\ pc_ae = "built"
  /\ LET r == AutoencoderForwardOn(encoder, decoder, k) IN
       /\ encoder' = r.enc
       /\ decoder' = r.dec
       /\ ae_out' = Some([ batch |-> k, raised |-> r.raised, value |-> r.value ])
  /\ UNCHANGED notAe
  /\ UNCHANGED <<pc_ae, cfg, dec_results>>

AeNext ==
  \/ EncoderInit
  \/ DecoderInit
  \/ \E k \in Batches : AutoencoderForward(k)

SpecAe == AeInit /\ [][AeNext]_vars

(***************************************************************************)
(* Sequences of encoder.forward and decoder.forward calls on a built       *)
(* autoencoder with coordinates configured.  Every decoder call is given   *)
(* the same arguments: the latent, orderings and coordinates of batch "A". *)
(***************************************************************************)
CallConfigs ==
  { c \in AeConfigs :
      /\ c.coords_dimension # 0
      /\ c.dimension = 2
      /\ c.self_concat = 1
      /\ ~ c.variational
      /\ DecoderAttrs(EncoderAttrs(c)).raised = "none" }

CallsInit ==
  /\ PlanIdle
  /\ BfcIdle
  /\ NbrIdle
  /\ ItpIdle
  /\ NnIdle
  /\ KlIdle
  /\ FwIdle
  /\ SfcIdle
  /\ TrainIdle
  /\ TabIdle
  /\ pc_ae = "built"
  /\ cfg \in CallConfigs
  /\ encoder = EncoderAttrs(cfg)
  /\ decoder = DecoderAttrs(encoder).dec
  /\ ae_out = None
  /\ dec_results = {}

\* sfc_cae_adaptive.py 334-438
EncoderForward(k) ==
  /\ pc_ae = "built"
  /\ LET r == EncoderForwardOn(encoder, decoder, k) IN
       /\ encoder' = r.enc
       /\ decoder' = r.dec
  /\ UNCHANGED notAe
  /\ UNCHANGED <<pc_ae, cfg, ae_out, dec_results>>

\* sfc_cae_adaptive.py 627-731
DecoderForward ==
  /\ pc_ae = "built"
  /\ LET r == DecoderForwardOn(encoder, decoder, Latent(encoder, "A"), "A") IN
       /\ encoder' = r.enc
       /\ decoder' = r.dec
       /\ dec_results' = dec_results \cup {Outcome(r)}
  /\ UNCHANGED notAe
  /\ UNCHANGED <<pc_ae, cfg, ae_out>>

CallsNext ==
  \/ \E k \in Batches : EncoderForward(k)
  \/ DecoderForward

SpecCalls == CallsInit /\ [][CallsNext]_vars

\* the configuration C8 is about
EndToEndConfig ==
  /\ cfg.sfc_nums = 1
  /\ cfg.input_size = 64
  /\ cfg.components = 1
  /\ cfg.nearest_neighbouring
  /\ cfg.coords_dimension = 0
  /\ ~ cfg.variational

(***************************************************************************)
(* C8: a non-variational autoencoder with sfc_nums = 1, input_size = 64,   *)
(* components = 1, nearest_neighbouring and no coordinates is constructed  *)
(* without an exception, and its forward on a batch of 4 snapshots returns *)
(* 4 reconstructions of 64 nodes.                                          *)
(***************************************************************************)
C8_EndToEndForward ==
  EndToEndConfig =>
    /\ pc_ae \in {"new", "encoder", "built"}
    /\ (ae_out # None /\ BatchLen(Val(ae_out).batch) = 4) =>
          /\ Val(ae_out).raised = "none"
          /\ Val(Val(ae_out).value).count = 4
          /\ Val(Val(ae_out).value).each = <<64>>

(***************************************************************************)
(* C10: decoder.forward calls given the same arguments, with the weights   *)
(* untouched, all have the same outcome, whatever encoder.forward calls    *)
(* were made before or between them.                                       *)
(***************************************************************************)
C10_DecoderForwardIsAFunction == Cardinality(dec_results) <= 1

(***************************************************************************)
(* The variational tail of SFC_CAE_Encoder_Adaptive.forward                *)
(* (sfc_cae_adaptive.py 431-437).  layerSig's outputs are multiples of     *)
(* ln 2, which keeps sigma = exp(layerSig(x)) and log(sigma) exact.        *)
(***************************************************************************)
MaxKlBatch == 2

MaxLatent == 2

\* 2 ** e as a fraction
Exp2(e) == IF e >= 0 THEN FracInt(Pow(2, e)) ELSE Frac(1, Pow(2, -e))

\* all the entries of a matrix, row after row
RECURSIVE Flatten(_)
Flatten(m) == IF m = <<>> THEN <<>> ELSE Head(m) \o Flatten(Tail(m))

\* sfc_cae_adaptive.py 436: the terms of the sum that do not involve log(sigma),
\* sigma ** 2 + mu ** 2 - 1 / 2
KlTerm(m, s) ==
  FracSub(FracAdd(FracMul(s, s), FracMul(FracInt(m), FracInt(m))), Frac(1, 2))

\* sfc_cae_adaptive.py 436
KlDivergence(m, s, logs, a) ==
  LET norm == FracInt(Len(m) * a.input_size * a.components)
      terms == [ i \in 1..Len(Flatten(m)) |-> KlTerm(Flatten(m)[i], Flatten(s)[i]) ]
      lns == [ i \in 1..Len(Flatten(logs)) |-> FracInt(-Flatten(logs)[i]) ]
  IN [ rational |-> FracDiv(FracSum(terms), norm),
       ln2 |-> FracDiv(FracSum(lns), norm) ]

KlInit ==
  /\ PlanIdle
  /\ BfcIdle
  /\ NbrIdle
  /\ ItpIdle
  /\ NnIdle
  /\ AeIdle
  /\ FwIdle
  /\ SfcIdle
  /\ TrainIdle
  /\ TabIdle
  /\ pc_kl = "layers"
  /\ kl_args \in [ input_size : {1, 64}, components : {1, 2} ]
  /\ \E b \in 1..MaxKlBatch, d \in 1..MaxLatent :
        /\ layerMu \in [ 1..b -> [ 1..d -> {0, 1} ] ]
        /\ layerSig \in [ 1..b -> [ 1..d -> {-1, 0, 1} ] ]
  /\ mu = <<>>
  /\ sigma = <<>>
  /\ kl_div = None

\* sfc_cae_adaptive.py 432-435; the sample drawn and x = mu + sigma * sample do
\* not enter kl_div and are not carried
VariationalSample ==
  /\ pc_kl = "layers"
  /\ mu' = layerMu
  /\ sigma' = [ i \in 1..Len(layerSig) |->
                  [ j \in 1..Len(layerSig[i]) |-> Exp2(layerSig[i][j]) ] ]
  /\ pc_kl' = "sampled"
  /\ UNCHANGED notKl
  /\ UNCHANGED <<kl_args, layerMu, layerSig, kl_div>>

\* sfc_cae_adaptive.py 436-437
KlDiv ==
  /\ pc_kl = "sampled"
  /\ kl_div' = Some(KlDivergence(mu, sigma, layerSig, kl_args))
  /\ pc_kl' = "done"
  /\ UNCHANGED notKl
  /\ UNCHANGED <<kl_args, layerMu, layerSig, mu, sigma>>

KlNext ==
  \/ VariationalSample
  \/ KlDiv

SpecKl == KlInit /\ [][KlNext]_vars

(***************************************************************************)
(* C9: when mu = 0 and sigma = 1 for every latent element of every sample, *)
(* the KL divergence the variational encoder returns is 0.                 *)
(***************************************************************************)
C9_KlOfStandardNormalIsZero ==
  ( /\ pc_kl = "done"
    /\ \A i \in 1..Len(mu) : \A j \in 1..Len(mu[i]) :
          mu[i][j] = 0 /\ sigma[i][j] = FracInt(1) ) =>
     Val(kl_div) = [ rational |-> FracInt(0), ln2 |-> FracInt(0) ]

(***************************************************************************)
(* The branch loops of SFC_CAE_Encoder_Adaptive.forward                    *)
(* (sfc_cae_adaptive.py 343-423) and SFC_CAE_Decoder_Adaptive.forward      *)
(* (636-731) on a batch of snapshots of differing node counts.  A          *)
(* snapshot's data are its node numbers.  What the convolutional, sparse   *)
(* and fully connected layers compute is not followed: the output of such  *)
(* a stack is carried as the tags of the positions it has, and one row of  *)
(* the node axis stands for every channel.                                 *)
(***************************************************************************)
MaxBranches == 2

SnapshotNodes == {2, 3}

BatchSizes == {1, 2}

BranchWidths == {1, 2}

DataChannels == {1, 2}

\* the node counts of the structuring grid, and the numbers of the orderings
\* offered as its curve
StructuredSizes == {4}

SecondCurves == {3}

\* the orderings offered to a snapshot of n nodes: node order, reversed, rotated
Curve(c, n) == [ p \in 1..n |-> IF c = 1 THEN p - 1 ELSE IF c = 2 THEN n - p ELSE p % n ]

\* the inverse ordering that comes with an ordering
InverseCurve(s) == [ j \in 1..Len(s) |-> (CHOOSE p \in 1..Len(s) : s[p] = j - 1) - 1 ]

\* np.argsort of a list of distinct numbers
Argsort(s) ==
  [ j \in 1..Len(s) |->
      (CHOOSE p \in 1..Len(s) : Cardinality({ q \in 1..Len(s) : s[q] < s[p] }) = j - 1) - 1 ]

\* x[..., ordering]: whether every index is in range, and the result
OrderingOk(x, ordering) == \A p \in 1..Len(ordering) : ordering[p] >= 0 /\ ordering[p] < Len(x)

Reorder(x, ordering) == [ p \in 1..Len(ordering) |-> x[ordering[p] + 1] ]

\* utils.py 499-509, 571-580: a snapshot of n nodes as AdaptiveDataset hands it
\* out, cs numbering its orderings
Snapshot(n, cs, maxnodes) ==
  [ nodes |-> n,
    x |-> [ p \in 1..n |-> FracInt(p - 1) ],
    sfc |-> [ m \in 1..Len(cs) |-> Curve(cs[m], n) ],
    inv_sfc |-> [ m \in 1..Len(cs) |-> InverseCurve(Curve(cs[m], n)) ],
    fla |-> IF n < maxnodes
              THEN Some(<< BackwardForwardConnecting(n, maxnodes),
                           BackwardForwardConnecting(maxnodes, n) >>)
              ELSE None ]

\* training.py 271-272: None, or sfc_nums distinct ordering numbers
ShuffleIndexes(K, M) ==
  {None} \cup { Some(s) : s \in { f \in [ 1..K -> 0..(M - 1) ] :
                                   \A i, j \in 1..K : i # j => f[i] # f[j] } }

\* sfc_cae_adaptive.py 354-355 and 703-704: sfc_index of branch i
SfcIndexUnshuffled(sfc_shuffle_index, i) == i
SfcIndex(sfc_shuffle_index, i) ==
  IF sfc_shuffle_index # None THEN Val(sfc_shuffle_index)[i + 1] ELSE i

\* sfc_cae_adaptive.py 356-362: what the encoder applies to a snapshot, in order
EncoderSteps(snap, sfc_index) ==
  << [ op |-> "sfc", by |-> snap.sfc[sfc_index + 1] ] >> \o
  (IF snap.fla # None THEN << [ op |-> "fla[0]", by |-> << Val(snap.fla)[1] >> ] >> ELSE <<>>)

\* sfc_cae_adaptive.py 382-386: what the encoder applies to the stacked batch
EncoderSecondSteps(a) ==
  IF a.second_sfc # None
    THEN << [ op |-> "filling_layer", by |-> << Val(a.filling_layer) >> ],
            [ op |-> "second_sfc", by |-> Val(a.second_sfc) ] >>
    ELSE <<>>

\* sfc_cae_adaptive.py 657, 673-675: what the decoder applies to the batch
DecoderSecondStepsExtractFirst(a) ==
  IF a.second_sfc # None
    THEN << [ op |-> "expand_extract_layer", by |-> << Val(a.expand_extract_layer) >> ],
            [ op |-> "inv_second_sfc", by |-> Val(a.inv_second_sfc) ] >>
    ELSE <<>>
DecoderSecondSteps(a) ==
  IF a.second_sfc # None
    THEN << [ op |-> "inv_second_sfc", by |-> Val(a.inv_second_sfc) ],
            [ op |-> "expand_extract_layer", by |-> << Val(a.expand_extract_layer) >> ] >>
    ELSE <<>>

\* sfc_cae_adaptive.py 702-711: what the decoder applies to a snapshot's row
DecoderSteps(snap, sfc_index) ==
  (IF snap.fla # None THEN << [ op |-> "fla[1]", by |-> << Val(snap.fla)[2] >> ] >> ELSE <<>>) \o
  << [ op |-> "inv_sfc", by |-> snap.inv_sfc[sfc_index + 1] ] >>

IndexSteps == {"sfc", "second_sfc", "inv_second_sfc", "inv_sfc"}

\* whether a step can be applied to x: an index within x, a layer on its length
StepOk(x, step) ==
  IF step.op \in IndexSteps THEN OrderingOk(x, step.by)
  ELSE LET layer == step.by[1] IN
         Len(x) = (IF layer.interpolate THEN layer.input_nodes + 1 ELSE layer.output_nodes)

ApplyStep(x, step) ==
  IF step.op \in IndexSteps THEN Reorder(x, step.by) ELSE Forward(step.by[1], x)

\* the steps applied one after the other; <<>> when one cannot be applied
RECURSIVE ApplySteps(_, _)
ApplySteps(x, steps) ==
  IF steps = <<>> THEN x
  ELSE IF ~ StepOk(x, Head(steps)) THEN <<>>
  ELSE ApplySteps(ApplyStep(x, Head(steps)), Tail(steps))

\* torch.chunk(v, chunks, dim = 1)
Chunk(v, chunks) ==
  LET sizes == ChunkSizes(Len(v), chunks) IN
    [ i \in 1..Len(sizes) |-> SubSeq(v, (i - 1) * sizes[1] + 1, (i - 1) * sizes[1] + sizes[i]) ]

\* sfc_cae_adaptive.py 718-724: data_z[k] after branch i, the branches on the last axis
CatBranchesOnNodeAxis(z, i, b) == IF i = 0 THEN [ j \in 1..Len(b) |-> <<b[j]>> ]
                                  ELSE z \o [ j \in 1..Len(b) |-> <<b[j]>> ]
CatBranches(z, i, b) == IF i = 0 THEN [ j \in 1..Len(b) |-> <<b[j]>> ]
                        ELSE [ j \in 1..Len(z) |-> Append(z[j], b[j]) ]

\* sfc_cae_adaptive.py 56: the structuring ordering the encoder is built with
SecondSfc(structured) ==
  IF structured = None THEN None
  ELSE Some(Curve(Val(structured)[2], Val(structured)[1]))

FwArgs ==
  { a \in [ sfc_nums : 1..MaxBranches,
            input_size : SnapshotNodes,
            sizes : UNION { [ 1..b -> SnapshotNodes ] : b \in BatchSizes },
            curves : [ 1..MaxBranches -> 1..3 ],
            sfc_shuffle_index : UNION { ShuffleIndexes(K, MaxBranches) : K \in 1..MaxBranches },
            coords_option : {1, 2},
            width : BranchWidths,
            channels : DataChannels,
            structured : {None} \cup { Some(<<S, c>>) : S \in StructuredSizes,
                                                      c \in SecondCurves } ] :
      /\ \A k \in 1..Len(a.sizes) : a.sizes[k] <= a.input_size
      /\ a.structured # None => a.width = 1 /\ a.channels = 1
      /\ a.sfc_shuffle_index \in ShuffleIndexes(a.sfc_nums, MaxBranches) }

FwInit ==
  /\ PlanIdle
  /\ BfcIdle
  /\ NbrIdle
  /\ ItpIdle
  /\ NnIdle
  /\ AeIdle
  /\ KlIdle
  /\ SfcIdle
  /\ TrainIdle
  /\ TabIdle
  /\ pc_fw = "encoder"
  /\ \E a \in FwArgs :
        fw_args = [ sfc_nums |-> a.sfc_nums,
                    input_size |-> a.input_size,
                    batch |-> [ k \in 1..Len(a.sizes) |->
                                  Snapshot(a.sizes[k], a.curves, a.input_size) ],
                    sfc_shuffle_index |-> a.sfc_shuffle_index,
                    coords_option |-> a.coords_option,
                    width |-> a.width,
                    channels |-> a.channels,
                    second_sfc |-> SecondSfc(a.structured),
                    filling_layer |->
                      IF a.structured = None THEN None
                      ELSE Some(BackwardForwardConnecting(a.input_size, Val(a.structured)[1])),
                    inv_second_sfc |->
                      IF a.structured = None THEN None
                      ELSE Some(Argsort(Val(SecondSfc(a.structured)))),
                    expand_extract_layer |->
                      IF a.structured = None THEN None
                      ELSE Some(BackwardForwardConnecting(Val(a.structured)[1], a.input_size)) ]
  /\ fw_i = 0
  /\ xs = <<>>
  /\ enc_ctoa = None
  /\ fw_x = <<>>
  /\ fw_chunks = <<>>
  /\ branches = <<>>
  /\ data_z = <<>>

\* sfc_cae_adaptive.py 348-420: one iteration of encoder.forward's loop over the
\* branches
EncoderBranch ==
  /\ pc_fw = "encoder"
  /\ fw_i < fw_args.sfc_nums
  /\ LET sfc_index == SfcIndex(fw_args.sfc_shuffle_index, fw_i)
         batch == fw_args.batch
         indexed == \A k \in 1..Len(batch) : OrderingOk(batch[k].x, batch[k].sfc[sfc_index + 1])
         steps == [ k \in 1..Len(batch) |-> EncoderSteps(batch[k], sfc_index) ]
         a == [ k \in 1..Len(batch) |-> ApplySteps(batch[k].x, steps[k]) ]
         stacked == \A k \in 1..Len(a) : Len(a[k]) = Len(a[1])
         second == EncoderSecondSteps(fw_args)
         filled == [ k \in 1..Len(batch) |-> ApplySteps(a[k], second) ]
     IN IF ~ indexed
          THEN /\ pc_fw' = "IndexError"
               /\ UNCHANGED <<fw_i, xs, enc_ctoa>>
          ELSE IF ~ stacked
          THEN /\ pc_fw' = "RuntimeError"
               /\ UNCHANGED <<fw_i, xs, enc_ctoa>>
          ELSE IF \E k \in 1..Len(batch) : filled[k] = <<>>
          THEN /\ pc_fw' = "RuntimeError"
               /\ UNCHANGED <<fw_i, xs, enc_ctoa>>
          ELSE /\ xs' = Append(xs, [ sfc_index |-> sfc_index,
                                     a |-> a,
                                     steps |-> [ k \in 1..Len(batch) |-> steps[k] \o second ],
                                     filled |-> filled,
                                     out |-> [ j \in 1..fw_args.width |-> <<fw_i, j - 1>> ] ])
               /\ enc_ctoa' = IF fw_args.coords_option = 2 THEN Some(sfc_index) ELSE enc_ctoa
               /\ fw_i' = fw_i + 1
               /\ pc_fw' = IF fw_i + 1 = fw_args.sfc_nums THEN "cat" ELSE pc_fw
  /\ UNCHANGED notFw
  /\ UNCHANGED <<fw_args, fw_x, fw_chunks, branches, data_z>>

\* sfc_cae_adaptive.py 422-423
EncoderCat ==
  /\ pc_fw = "cat"
  /\ fw_x' = IF fw_args.sfc_nums > 1 THEN Concat([ i \in 1..Len(xs) |-> xs[i].out ])
             ELSE xs[1].out
  /\ pc_fw' = "chunk"
  /\ UNCHANGED notFw
  /\ UNCHANGED <<fw_args, fw_i, xs, enc_ctoa, fw_chunks, branches, data_z>>

\* sfc_cae_adaptive.py 636-643: the latent expanded by the decoder's fully
\* connected layers, as wide as the vector the encoder concatenated, and split
DecoderChunk ==
  /\ pc_fw = "chunk"
  /\ LET x == [ p \in 1..Len(fw_x) |-> p - 1 ] IN
       fw_chunks' = IF fw_args.sfc_nums > 1 THEN Chunk(x, fw_args.sfc_nums) ELSE <<x>>
  /\ fw_i' = 0
  /\ pc_fw' = "decoder"
  /\ UNCHANGED notFw
  /\ UNCHANGED <<fw_args, xs, enc_ctoa, fw_x, branches, data_z>>

\* sfc_cae_adaptive.py 645-724: one iteration of decoder.forward's loop over the
\* branches; b[k] leaves the layers with input_size positions, or with those of
\* the structuring grid
DecoderBranch ==
  /\ pc_fw = "decoder"
  /\ fw_i < fw_args.sfc_nums
  /\ LET sfc_index == SfcIndex(fw_args.sfc_shuffle_index, fw_i)
         batch == fw_args.batch
         positions == IF fw_args.second_sfc # None THEN Len(Val(fw_args.second_sfc))
                      ELSE fw_args.input_size
         second == DecoderSecondSteps(fw_args)
         steps == [ k \in 1..Len(batch) |-> DecoderSteps(batch[k], sfc_index) ]
         b == [ k \in 1..Len(batch) |->
                  ApplySteps([ p \in 1..positions |-> FracInt(p - 1) ], second) ]
         fits == \A k \in 1..Len(batch) :
                    /\ b[k] # <<>>
                    /\ batch[k].fla # None => StepOk(b[k], steps[k][1])
         extracted == [ k \in 1..Len(batch) |->
                          IF batch[k].fla # None THEN ApplyStep(b[k], steps[k][1])
                          ELSE b[k] ]
         indexed == \A k \in 1..Len(batch) :
                       OrderingOk(extracted[k], batch[k].inv_sfc[sfc_index + 1])
         out == [ k \in 1..Len(batch) |-> ApplySteps(b[k], steps[k]) ]
     IN IF fw_i + 1 > Len(fw_chunks)
          THEN /\ pc_fw' = "IndexError"
               /\ UNCHANGED <<fw_i, branches, data_z>>
          ELSE IF ~ fits
          THEN /\ pc_fw' = "RuntimeError"
               /\ UNCHANGED <<fw_i, branches, data_z>>
          ELSE IF ~ indexed
          THEN /\ pc_fw' = "IndexError"
               /\ UNCHANGED <<fw_i, branches, data_z>>
          ELSE /\ branches' = Append(branches,
                                     [ sfc_index |-> sfc_index,
                                       chunk |-> fw_chunks[fw_i + 1],
                                       ctoa |-> IF fw_args.coords_option = 2 THEN enc_ctoa
                                                ELSE None,
                                       steps |-> [ k \in 1..Len(batch) |-> second \o steps[k] ],
                                       b |-> out ])
               /\ data_z' = [ k \in 1..Len(b) |->
                                [ row |-> k,
                                  z |-> CatBranches(IF fw_i = 0 THEN <<>> ELSE data_z[k].z,
                                                    fw_i, out[k]) ] ]
               /\ fw_i' = fw_i + 1
               /\ pc_fw' = IF fw_i + 1 = fw_args.sfc_nums THEN "sum" ELSE pc_fw
  /\ UNCHANGED notFw
  /\ UNCHANGED <<fw_args, xs, enc_ctoa, fw_x, fw_chunks>>

\* sfc_cae_adaptive.py 711, 716, 728-731: the sum over the branches; squeeze(0)
\* drops the channel axis of a one-channel reconstruction
DecoderSum ==
  /\ pc_fw = "sum"
  /\ data_z' = [ k \in 1..Len(data_z) |->
                   [ row |-> data_z[k].row,
                     shape |-> IF fw_args.channels = 1 THEN << Len(data_z[k].z) >>
                               ELSE << fw_args.channels, Len(data_z[k].z) >>,
                     z |-> [ j \in 1..Len(data_z[k].z) |-> FracSum(data_z[k].z[j]) ] ] ]
  /\ pc_fw' = "done"
  /\ UNCHANGED notFw
  /\ UNCHANGED <<fw_args, fw_i, xs, enc_ctoa, fw_x, fw_chunks, branches>>

FwNext ==
  \/ EncoderBranch
  \/ EncoderCat
  \/ DecoderChunk
  \/ DecoderBranch
  \/ DecoderSum

SpecFw == FwInit /\ [][FwNext]_vars

\* the ordering number of branch i
Idx(i) ==
  IF fw_args.sfc_shuffle_index # None THEN Val(fw_args.sfc_shuffle_index)[i + 1] ELSE i

(***************************************************************************)
(* C11: for every branch i, with or without a shuffle index, the encoder   *)
(* reorders each snapshot by ordering number idx(i) and its output is the  *)
(* i-th slice of the concatenated vector; the decoder's branch i consumes  *)
(* the i-th chunk of the expanded latent and un-reorders with the inverse  *)
(* ordering number idx(i), so that in a snapshot without length adapter,   *)
(* no structuring grid being configured, the position handed back to a     *)
(* node is the one the encoder put it at.                                  *)
(***************************************************************************)
C11_BranchKeepsItsCurve ==
  /\ pc_fw \notin {"IndexError", "RuntimeError"}
  /\ \A i \in 1..Len(xs) :
        /\ xs[i].sfc_index = Idx(i - 1)
        /\ \A k \in 1..Len(fw_args.batch) :
              fw_args.batch[k].fla = None =>
                 xs[i].a[k] = Reorder(fw_args.batch[k].x, fw_args.batch[k].sfc[Idx(i - 1) + 1])
  /\ fw_x # <<>> =>
        \A i \in 1..fw_args.sfc_nums :
           SubSeq(fw_x, (i - 1) * fw_args.width + 1, i * fw_args.width) = xs[i].out
  /\ \A i \in 1..Len(branches) :
        /\ branches[i].sfc_index = Idx(i - 1)
        /\ branches[i].chunk = [ j \in 1..fw_args.width |-> (i - 1) * fw_args.width + j - 1 ]
        /\ \A k \in 1..Len(fw_args.batch) :
              (fw_args.batch[k].fla = None /\ fw_args.second_sfc = None) =>
                 \A j \in 1..fw_args.batch[k].nodes :
                    xs[i].a[k][branches[i].b[k][j][1] + 1] = FracInt(j - 1)

C11_Witness ==
  /\ pc_fw = "done"
  /\ fw_args.sfc_nums = 2
  /\ fw_args.sfc_shuffle_index # None
  /\ Idx(0) = 1
  /\ Len(fw_args.batch) = 2
  /\ fw_args.batch[1].nodes # fw_args.batch[2].nodes
  /\ \E k \in 1..2 : fw_args.batch[k].fla = None /\ fw_args.batch[k].sfc[1] # fw_args.batch[k].sfc[2]
  /\ branches[1].sfc_index = 1
  /\ xs[1].sfc_index = 1
  /\ branches[2].chunk # branches[1].chunk

RejectedKernelOdd(k) == k % 2 = 1
RejectedKernel(k) == k % 2 = 0

CtorConfigs ==
  [ components : {1, 2}, self_concat : {1, 2}, nearest_neighbouring : BOOLEAN,
    coords : {None, Some("coords")}, coords_dimension : {None, Some(2)},
    ban_shuffle_sp : BOOLEAN, decrease_in_channel : BOOLEAN,
    shuffle_sp_kernel_size : {None, Some(4), Some(5), Some(30)},
    force_initialising_param : {None, Some(<<0>>), Some(<<0, 1>>), Some(<<0, 1, 2>>)} ]

\* the arguments as CoordsAttrs reads them, for a call that gets through the
\* coords branch
CtorAsConfig(c) ==
  [ components |-> c.components,
    self_concat |-> c.self_concat,
    nearest_neighbouring |-> c.nearest_neighbouring,
    coords_dimension |-> IF c.coords # None THEN Val(c.coords_dimension) ELSE 0,
    ban_shuffle_sp |-> c.ban_shuffle_sp,
    decrease_in_channel |-> c.decrease_in_channel,
    coords_option |-> 1,
    extract_by_sp |-> FALSE ]

CtorInit ==
  /\ PlanIdle
  /\ BfcIdle
  /\ NbrIdle
  /\ ItpIdle
  /\ NnIdle
  /\ KlIdle
  /\ FwIdle
  /\ SfcIdle
  /\ TrainIdle
  /\ TabIdle
  /\ pc_ae = "new"
  /\ cfg \in CtorConfigs
  /\ encoder = <<>>
  /\ decoder = <<>>
  /\ ae_out = None
  /\ dec_results = {}

\* sfc_cae_adaptive.py 59-110
CtorHead ==
  /\ pc_ae = "new"
  /\ encoder' = [ NN |-> cfg.nearest_neighbouring,
                  components |-> cfg.components,
                  self_concat |-> cfg.self_concat,
                  num_neigh |-> 3,
                  second_sfc |-> None,
                  num_final_channels |-> DefaultFinalChannels ]
  /\ pc_ae' = "head"
  /\ UNCHANGED notAe
  /\ UNCHANGED <<cfg, decoder, ae_out, dec_results>>

\* sfc_cae_adaptive.py 112-156: "self.components += self.coords_dim" with
\* coords_dimension None is a TypeError
CtorCoords ==
  /\ pc_ae = "head"
  /\ IF cfg.coords # None /\ cfg.coords_dimension = None
       THEN /\ pc_ae' = "TypeError"
            /\ encoder' = Assign(Assign(encoder, "coords", cfg.coords), "coords_dim", None)
     ELSE IF /\ cfg.coords # None
             /\ cfg.shuffle_sp_kernel_size # None
             /\ RejectedKernel(Val(cfg.shuffle_sp_kernel_size))
       THEN /\ pc_ae' = "ValueError"
            /\ encoder' = [ n \in {"coords", "coords_dim", "components", "input_channel",
                                   "ban_shuffle_sp", "shuffle_sp_kernel_size"} |->
                              IF n = "shuffle_sp_kernel_size" THEN Val(cfg.shuffle_sp_kernel_size)
                              ELSE CoordsAttrs(CtorAsConfig(cfg))[n] ] @@ encoder
     ELSE LET ca == CoordsAttrs(CtorAsConfig(cfg))
              k == IF cfg.shuffle_sp_kernel_size # None THEN Val(cfg.shuffle_sp_kernel_size)
                   ELSE ShuffleSpKernelSize
          IN /\ pc_ae' = "coords"
             /\ encoder' = IF cfg.coords # None
                             THEN [ shuffle_sp_kernel_size |-> k,
                                    shuffle_sp_padding |-> k \div 2 ] @@ (ca @@ encoder)
                             ELSE ca @@ encoder
  /\ UNCHANGED notAe
  /\ UNCHANGED <<cfg, decoder, ae_out, dec_results>>

\* sfc_cae_adaptive.py 158-174
CtorInitParam ==
  /\ pc_ae = "coords"
  /\ IF cfg.force_initialising_param # None /\ Len(Val(cfg.force_initialising_param)) # 2
       THEN /\ pc_ae' = "ValueError"
            /\ encoder' = Assign(encoder, "activate", "Tanh")
       ELSE /\ pc_ae' = "checked"
            /\ encoder' = Assign(Assign(encoder, "activate", "Tanh"),
                                 "init_param", cfg.force_initialising_param)
  /\ UNCHANGED notAe
  /\ UNCHANGED <<cfg, decoder, ae_out, dec_results>>

CtorNext ==
  \/ CtorHead
  \/ CtorCoords
  \/ CtorInitParam

SpecCtor == CtorInit /\ [][CtorNext]_vars

\* force_initialising_param is not None and its length is not 2
BadInitParam ==
  cfg.force_initialising_param # None /\ Len(Val(cfg.force_initialising_param)) # 2

\* shuffle_sp_kernel_size was passed and is even
EvenKernel ==
  cfg.shuffle_sp_kernel_size # None /\ Val(cfg.shuffle_sp_kernel_size) % 2 = 0

\* __init__ has got past the checks or has raised
CtorChecked == pc_ae \in {"checked", "ValueError", "TypeError"}

(***************************************************************************)
(* C13 as stated: a force_initialising_param that is not None and whose    *)
(* length is not 2, or an even shuffle_sp_kernel_size, makes the encoder's *)
(* construction fail with a ValueError in every configuration, with or     *)
(* without coordinates configured.                                         *)
(***************************************************************************)
C13_InvalidConfigRaisesValueError ==
  (CtorChecked /\ (BadInitParam \/ EvenKernel)) => pc_ae = "ValueError"

(***************************************************************************)
(* C13 as amended: a force_initialising_param that is not None and whose   *)
(* length is not 2 makes construction fail in every configuration, and an  *)
(* even shuffle_sp_kernel_size makes it fail when coordinates are          *)
(* configured; the failure is a ValueError, or the TypeError of            *)
(* coordinates passed without coords_dimension.  Without coordinates the   *)
(* kernel size is not read and the encoder gets no such attribute.         *)
(***************************************************************************)
C13_InvalidConfigRejectedWhereRead ==
  CtorChecked =>
     /\ (BadInitParam \/ (EvenKernel /\ cfg.coords # None)) =>
           /\ pc_ae \in {"ValueError", "TypeError"}
           /\ pc_ae = "TypeError" <=> (cfg.coords # None /\ cfg.coords_dimension = None)
     /\ (cfg.coords = None /\ pc_ae = "checked") => ~ Has(encoder, "shuffle_sp_kernel_size")

C13_Witness ==
  /\ pc_ae = "ValueError"
  /\ EvenKernel
  /\ ~ BadInitParam
  /\ cfg.coords # None
  /\ encoder.shuffle_sp_kernel_size % 2 = 0

\* the node a node's neighbour for offset off is: the node at the shifted
\* position when that lies on the grid, else the node itself
ShiftedOrSelf(f, off, sh) ==
  LET c == Unravel(f, sh)
      shifted == [ i \in 1..Len(sh) |-> c[i] + off[i] ]
  IN IF \A i \in 1..Len(sh) : shifted[i] >= 0 /\ shifted[i] < sh[i]
       THEN Ravel(shifted, sh) ELSE f

(***************************************************************************)
(* C14: for a grid of N nodes and m offsets the table returned by          *)
(* get_neighbourhood_md has length (m + 1) * N; block 0 holds the nodes'   *)
(* own indices in flattened grid order, and every entry of block b         *)
(* (1 <= b <= m) lies in [b * N, (b + 1) * N) and is b * N plus the index  *)
(* of that node's b-th neighbour.                                          *)
(***************************************************************************)
C14_TableIsTiledGatherIndex ==
  (pc_nbr = "done") =>
     /\ Len(order_list) = (Len(Ax) + 1) * total_nodes
     /\ \A f \in 1..total_nodes : order_list[f] = f - 1
     /\ \A b \in 1..Len(Ax) : \A f \in 1..total_nodes :
           LET e == order_list[b * total_nodes + f] IN
             /\ e >= b * total_nodes
             /\ e < (b + 1) * total_nodes
             /\ e = b * total_nodes + ShiftedOrSelf(f - 1, Ax[b], shape)

C14_Witness ==
  /\ pc_nbr = "done"
  /\ Len(shape) = 2
  /\ Len(Ax) = 24
  /\ total_nodes = 6
  /\ Len(order_list) = 150
  /\ \E b \in 1..Len(Ax) : \E f, g \in 1..total_nodes :
        /\ order_list[b * total_nodes + f] = b * total_nodes + f - 1
        /\ order_list[b * total_nodes + g] # b * total_nodes + g - 1

\* the vectors of {-r..r}^ndim other than the zero vector
RangeOffsets(ndim, r) == { t \in [ 1..ndim -> (-r)..r ] : NonZero(t) }

\* the axis-aligned unit vectors of ndim axes
UnitOffsets(ndim) ==
  { t \in [ 1..ndim -> {-1, 0, 1} ] : Cardinality({ d \in 1..ndim : t[d] # 0 }) = 1 }

\* the offsets of a list, as a set
Offsets(keys) == { keys[i] : i \in 1..Len(keys) }

(***************************************************************************)
(* C15: in general mode gen_neighbour_keys returns exactly the             *)
(* (2R + 1)^ndim - 1 vectors of {-R..R}^ndim other than the zero vector,   *)
(* each once; for ndim >= 2 with direct_neigh it returns exactly the       *)
(* 2 * ndim axis-aligned unit vectors.                                     *)
(***************************************************************************)
C15_KeysAreDocumentedOffsets ==
  (pc_nbr # "keys") =>
     IF Len(shape) >= 2 /\ direct_neigh
       THEN /\ pc_nbr # "TypeError"
            /\ Len(Ax) = 2 * Len(shape)
            /\ Offsets(Ax) = UnitOffsets(Len(shape))
       ELSE direct_neigh \/
            /\ Len(Ax) = Pow(2 * nbr_range + 1, Len(shape)) - 1
            /\ Offsets(Ax) = RangeOffsets(Len(shape), nbr_range)

\* the number of passes of a layer that write (read) position i of the short
\* sequence: a forward pass of length g covers its first g positions, a backward
\* pass its last g
PassesOver(layer, i) ==
  LET n == layer.input_nodes + 1 IN
    Cardinality({ p \in 1..Len(layer.para_groups) :
                    IF p % 2 = 1 THEN i <= layer.para_groups[p]
                    ELSE i > n - layer.para_groups[p] })

(***************************************************************************)
(* C16: for every pair of lengths the occurrence count that                *)
(* BackwardForwardConnecting derives for position i of the short sequence  *)
(* is the number of expansion passes that write (read) position i, and     *)
(* every contraction weight is 1 over that number.                         *)
(***************************************************************************)
C16_OccurenceCountsPasses ==
  (pc_bfc # "new") =>
     /\ \A i \in 1..Len(Val(first_layer).occurence) :
           Val(first_layer).occurence[i] = PassesOver(Val(first_layer), i)
     /\ \A i \in 1..Len(Val(second_layer).occurence) :
           Val(second_layer).occurence[i] = PassesOver(Val(second_layer), i)
     /\ \A p \in 1..Len(Val(second_layer).weights) :
           \A k \in 1..Len(Val(second_layer).weights[p]) :
              LET n == Val(second_layer).input_nodes + 1
                  g == Val(second_layer).para_groups[p]
                  i == IF p % 2 = 1 THEN k ELSE n - g + k
              IN Val(second_layer).weights[p][k] = <<1, PassesOver(Val(second_layer), i)>>

\* the p-th pass (1-based) of the expansion of x when every pass but the last
\* has g positions: the first positions of x, or of x reversed
Pass(x, p, g, large) ==
  LET start == (p - 1) * g
      len == Min(g, large - start)
  IN SubSeq(IF p % 2 = 1 THEN x ELSE Reverse(x), 1, len)

\* the concatenation of the passes of g positions that make up large elements
RECURSIVE Passes(_, _, _, _)
Passes(x, p, g, large) ==
  IF (p - 1) * g >= large THEN <<>>
  ELSE Pass(x, p, g, large) \o Passes(x, p + 1, g, large)

\* an expansion has been computed from a sequence no shorter than a pass
Expanded == pc_bfc \in {"first", "second"} /\ lengths[1] < lengths[2]

(***************************************************************************)
(* C17 as stated: with small = min(length_a, length_b) - 1 and             *)
(* large = max(length_a, length_b), the expansion of x is the              *)
(* concatenation of alternating passes, pass 0 reading x forward, pass 1   *)
(* reading the reversed x, every pass except possibly the last of length   *)
(* small + 1, the last cut short so that large elements are produced.      *)
(***************************************************************************)
C17_PassesOfSmallPlusOne ==
  Expanded => x_mid = Passes(Fracs(x_in), 1, Min(lengths[1], lengths[2]), Max(lengths[1], lengths[2]))

(***************************************************************************)
(* C17 as amended: the passes have length small, not small + 1: a forward  *)
(* pass reads the first small elements of x and a backward pass the first  *)
(* small elements of the reversed x, so consecutive passes do not repeat   *)
(* the turning point; the last pass is cut short so that exactly large     *)
(* elements are produced.                                                  *)
(***************************************************************************)
C17_PassesOfSmall ==
  Expanded =>
     /\ x_mid = Passes(Fracs(x_in), 1, Min(lengths[1], lengths[2]) - 1,
                       Max(lengths[1], lengths[2]))
     /\ Len(x_mid) = Max(lengths[1], lengths[2])

C17_Witness ==
  /\ pc_bfc = "first"
  /\ lengths = <<3, 7>>
  /\ x_in = <<1, 1, 2>>
  /\ x_mid = Fracs(<<1, 1, 2, 1, 1, 1, 2>>)

Indexes(sh) == { Unravel(i - 1, sh) : i \in 1..Prod(sh) }

(***************************************************************************)
(* C19: for x with the grid's N nodes on its last axis and the table of    *)
(* get_neighbourhood_md over m offsets, get_concat_list_md(x, table, m + 1)*)
(* has the shape of x with an axis of length m + 1 appended; its entry     *)
(* [..., n, 0] is x[..., n] and its entry [..., n, k] (1 <= k <= m) is x   *)
(* at node n's k-th neighbour, on every leading index.                     *)
(***************************************************************************)
C19_ConcatListGathersNeighbours ==
  (pc_nbr = "concat") =>
     /\ concat_list.shape = nbr_x.shape \o << Len(Ax) + 1 >>
     /\ \A c \in Indexes(nbr_x.shape) :
          LET nd == Len(c)
              n  == c[nd]
          IN /\ At(concat_list, c \o << 0 >>) = At(nbr_x, c)
             /\ \A k \in 1..Len(Ax) :
                  At(concat_list, c \o << k >>) =
                    At(nbr_x, [ d \in 1..nd |->
                                  IF d = nd THEN ShiftedOrSelf(n, Ax[k], shape) ELSE c[d] ])

C19_Witness ==
  /\ pc_nbr = "concat"
  /\ shape = <<2, 3>>
  /\ Len(Ax) = 8
  /\ nbr_x.shape = <<2, 6>>
  /\ concat_list.shape = <<2, 6, 9>>
  /\ At(nbr_x, <<1, 4>>) = 10
  /\ At(concat_list, <<1, 0, 0>>) = 6
  /\ \E k \in 1..8 : Ax[k] = <<1, 1>> /\ At(concat_list, <<1, 0, k>>) = 10
  /\ \E k \in 1..8 : Ax[k] = <<-1, 0>> /\ At(concat_list, <<1, 0, k>>) = 6

(***************************************************************************)
(* C20: for n_from >= 2 and n_to >= 2 linear_interpolate_python_weights    *)
(* returns for every target point a previous index in [0, n_from - 2] and  *)
(* a next index equal to previous + 1, with weights for the two both in    *)
(* [0, 1] and summing to 1; applying them gives an output whose last       *)
(* sample is the last input sample.                                        *)
(***************************************************************************)
C20_IndexesAndWeightsInRange ==
  /\ pc_itp # "IndexError"
  /\ (pc_itp \in {"weights", "done"}) =>
        LET pr == Val(itp_params) IN
          /\ Len(pr.nod_prev_list) = nonods_l
          /\ \A j \in 1..nonods_l :
                /\ pr.nod_prev_list[j] >= 0
                /\ pr.nod_prev_list[j] <= nonods - 2
                /\ pr.nod_next_list[j] = pr.nod_prev_list[j] + 1
                /\ ~ FracLess(pr.weight_prev[j], FracInt(0))
                /\ ~ FracLess(FracInt(1), pr.weight_prev[j])
                /\ ~ FracLess(pr.weight_next[j], FracInt(0))
                /\ ~ FracLess(FracInt(1), pr.weight_next[j])
                /\ FracAdd(pr.weight_prev[j], pr.weight_next[j]) = FracInt(1)
  /\ (pc_itp = "done") =>
        /\ Len(itp_out) = nonods_l
        /\ itp_out[nonods_l] = Fracs(itp_x)[nonods]

C20_Witness ==
  /\ pc_itp = "done"
  /\ nonods = 3
  /\ nonods_l = 5
  /\ LET pr == Val(itp_params) IN
       /\ pr.nod_prev_list[2] = 0
       /\ FracLess(FracInt(0), pr.weight_next[2])
       /\ FracLess(pr.weight_next[2], FracInt(1))
       /\ pr.nod_prev_list[5] = 1
       /\ pr.nod_prev_list[3] = 0
       /\ pr.weight_next[3] = FracInt(1)
  /\ itp_x[3] # itp_x[2]
  /\ itp_out[5] = Fracs(itp_x)[3]

\* the footprint of stage i of the conv plan
Footprint(i) == Pow(conv_size[i], args.ndim) * channels[i] * args.sfc_nums

(***************************************************************************)
(* C21: when no first_sp_channel is given, in the conv plan every spatial  *)
(* size follows new = (old + 2 * padding - kernel) // stride + 1, every    *)
(* stage before the last has size^ndim * channels * sfc_nums > 4000, the   *)
(* last stage has size^ndim * channels * sfc_nums <= 4000, and every       *)
(* channel count after the first is the previous one times increase_multi  *)
(* or num_final_channels, never above num_final_channels.                  *)
(***************************************************************************)
C21_ConvPlanStopsAtFirstFit ==
  (pc_plan \in {"fc", "returned", "trans"} /\ args.first_sp_channel = None) =>
     LET last == Len(conv_size) IN
       /\ Len(channels) = last
       /\ conv_size[1] = args.size
       /\ channels[1] = args.input_channel
       /\ \A i \in 1..(last - 1) :
             /\ conv_size[i + 1] =
                  ((conv_size[i] + 2 * padding - kernel_size) \div enc_stride) + 1
             /\ Footprint(i) > GuardThreshold
             /\ \/ channels[i + 1] = channels[i] * args.increase_multi
                \/ channels[i + 1] = args.num_final_channels
             /\ channels[i + 1] <= args.num_final_channels
       /\ Footprint(last) <= GuardThreshold

C21_Witness ==
  /\ pc_plan = "returned"
  /\ args.first_sp_channel = None
  /\ args.sfc_nums = 2
  /\ Len(conv_size) >= 4
  /\ \E i \in 2..(Len(channels) - 1) :
        /\ channels[i] = args.num_final_channels
        /\ channels[i + 1] = args.num_final_channels
  /\ \E i \in 1..(Len(channels) - 1) : channels[i + 1] = channels[i] * args.increase_multi
  /\ Footprint(Len(conv_size)) * 2 > GuardThreshold
  /\ Val(plan).channels = channels

\* the names of the steps of a list, in order
Ops(steps) == [ j \in 1..Len(steps) |-> steps[j].op ]

\* whether the decoder's step dec is the one that undoes the encoder's step enc
Undoes(enc, dec) ==
  \/ /\ enc.op = "sfc" /\ dec.op = "inv_sfc"
     /\ Len(enc.by) = Len(dec.by)
     /\ \A p \in 1..Len(enc.by) : enc.by[dec.by[p] + 1] = p - 1
  \/ /\ enc.op = "second_sfc" /\ dec.op = "inv_second_sfc"
     /\ Len(enc.by) = Len(dec.by)
     /\ \A p \in 1..Len(enc.by) : enc.by[dec.by[p] + 1] = p - 1
  \/ /\ \/ enc.op = "fla[0]" /\ dec.op = "fla[1]"
        \/ enc.op = "filling_layer" /\ dec.op = "expand_extract_layer"
     /\ enc.by[1].interpolate /\ ~ dec.by[1].interpolate
     /\ enc.by[1].input_nodes = dec.by[1].input_nodes
     /\ enc.by[1].output_nodes = dec.by[1].output_nodes

(***************************************************************************)
(* C22: for every snapshot and branch the encoder applies the SFC          *)
(* permutation, then the per-snapshot length expansion and, a structuring  *)
(* SFC being configured, the second length expansion and then the          *)
(* structuring permutation; the decoder applies the inverse structuring    *)
(* permutation, then the second contraction, then the per-snapshot         *)
(* contraction and only then the inverse SFC permutation: the encoder's    *)
(* steps undone in exactly reverse order.                                  *)
(***************************************************************************)
C22_DecoderUndoesInReverseOrder ==
  /\ pc_fw \notin {"IndexError", "RuntimeError"}
  /\ \A i \in 1..Len(xs) : \A k \in 1..Len(fw_args.batch) :
        Ops(xs[i].steps[k]) =
          <<"sfc">> \o
          (IF fw_args.batch[k].fla # None THEN <<"fla[0]">> ELSE <<>>) \o
          (IF fw_args.second_sfc # None THEN <<"filling_layer", "second_sfc">> ELSE <<>>)
  /\ \A i \in 1..Len(branches) : \A k \in 1..Len(fw_args.batch) :
        LET e == xs[i].steps[k]
            d == branches[i].steps[k]
        IN /\ Ops(d) =
                (IF fw_args.second_sfc # None THEN <<"inv_second_sfc", "expand_extract_layer">>
                 ELSE <<>>) \o
                (IF fw_args.batch[k].fla # None THEN <<"fla[1]">> ELSE <<>>) \o
                <<"inv_sfc">>
           /\ Len(d) = Len(e)
           /\ \A j \in 1..Len(d) : Undoes(e[Len(e) + 1 - j], d[j])

C22_Witness ==
  /\ pc_fw = "done"
  /\ fw_args.sfc_nums = 2
  /\ fw_args.second_sfc # None
  /\ Len(fw_args.batch) = 2
  /\ fw_args.batch[1].fla # None
  /\ fw_args.batch[2].fla = None
  /\ Ops(xs[2].steps[1]) = <<"sfc", "fla[0]", "filling_layer", "second_sfc">>
  /\ Ops(branches[2].steps[1]) = <<"inv_second_sfc", "expand_extract_layer", "fla[1]", "inv_sfc">>
  /\ Ops(branches[2].steps[2]) = <<"inv_second_sfc", "expand_extract_layer", "inv_sfc">>
  /\ Len(xs[2].filled[1]) = 4
  /\ Len(branches[2].b[1]) = fw_args.batch[1].nodes

(***************************************************************************)
(* Orderings and their inverses: get_sfc_curves_from_coords                *)
(* (utils.py 659-686) and SFC_CAE_Decoder_Adaptive.__init__                *)
(* (sfc_cae_adaptive.py 517-522).  What the Fortran library numbers the    *)
(* nodes with is an input: every node has its own number.                  *)
(***************************************************************************)
MaxCurveNodes == 3

\* the columns space_filling_curve_numbering can have for n nodes
Numberings(n) == { f \in [ 1..n -> 1..(n + 1) ] : \A p, q \in 1..n : p # q => f[p] # f[q] }

\* the orderings of n positions
Orderings(n) == { f \in [ 1..n -> 0..(n - 1) ] : \A p, q \in 1..n : p # q => f[p] # f[q] }

\* utils.py 682
CurveList(column) == Argsort(column)

\* utils.py 683
InverseListSorted(column) == Argsort(column)
InverseList(column) == Argsort(Argsort(column))

SfcInit ==
  /\ PlanIdle
  /\ BfcIdle
  /\ NbrIdle
  /\ ItpIdle
  /\ NnIdle
  /\ AeIdle
  /\ KlIdle
  /\ FwIdle
  /\ TrainIdle
  /\ TabIdle
  /\ pc_sfc = "new"
  /\ \/ /\ \E n \in 2..MaxCurveNodes : \E ncurve \in 1..2 :
             numbering \in [ 1..ncurve -> Numberings(n) ]
        /\ second_sfc = None
     \/ /\ numbering = <<>>
        /\ \E n \in 2..MaxCurveNodes : \E s \in Orderings(n) : second_sfc = Some(s)
  /\ curve_lists = <<>>
  /\ inv_lists = <<>>
  /\ inv_second_sfc = None
  /\ sfc_x = <<>>
  /\ sfc_y = <<>>
  /\ sfc_z = <<>>

\* utils.py 679-686
GetSfcCurvesFromCoords ==
  /\ pc_sfc = "new"
  /\ numbering # <<>>
  /\ curve_lists' = [ i \in 1..Len(numbering) |-> CurveList(numbering[i]) ]
  /\ inv_lists' = [ i \in 1..Len(numbering) |-> InverseList(numbering[i]) ]
  /\ pc_sfc' = "paired"
  /\ UNCHANGED notSfc
  /\ UNCHANGED <<numbering, second_sfc, inv_second_sfc, sfc_x, sfc_y, sfc_z>>

\* sfc_cae_adaptive.py 517-522
DecoderInverse ==
  /\ pc_sfc = "new"
  /\ second_sfc # None
  /\ inv_second_sfc' = Some(Argsort(Val(second_sfc)))
  /\ pc_sfc' = "paired"
  /\ UNCHANGED notSfc
  /\ UNCHANGED <<numbering, second_sfc, curve_lists, inv_lists, sfc_x, sfc_y, sfc_z>>

\* the ordering and inverse numbered i; number 0 is the structuring pair
Ordering(i) == IF i = 0 THEN Val(second_sfc) ELSE curve_lists[i]

Inverse(i) == IF i = 0 THEN Val(inv_second_sfc) ELSE inv_lists[i]

\* sfc_cae_adaptive.py 356, 386: x[..., ordering] on a tensor whose entries are
\* all different
ReorderBy ==
  /\ pc_sfc = "paired"
  /\ \E i \in (IF second_sfc # None THEN {0} ELSE 1..Len(curve_lists)) :
        /\ sfc_x' = [ p \in 1..Len(Ordering(i)) |-> 10 * p ]
        /\ OrderingOk(sfc_x', Ordering(i))
        /\ sfc_y' = [ pair |-> i, x |-> Reorder(sfc_x', Ordering(i)) ]
  /\ pc_sfc' = "ordered"
  /\ UNCHANGED notSfc
  /\ UNCHANGED <<numbering, second_sfc, curve_lists, inv_lists, inv_second_sfc, sfc_z>>

\* sfc_cae_adaptive.py 673, 711: b[..., inverse]
ReorderBack ==
  /\ pc_sfc = "ordered"
  /\ OrderingOk(sfc_y.x, Inverse(sfc_y.pair))
  /\ sfc_z' = Reorder(sfc_y.x, Inverse(sfc_y.pair))
  /\ pc_sfc' = "back"
  /\ UNCHANGED notSfc
  /\ UNCHANGED <<numbering, second_sfc, curve_lists, inv_lists, inv_second_sfc, sfc_x, sfc_y>>

SfcNext ==
  \/ GetSfcCurvesFromCoords
  \/ DecoderInverse
  \/ ReorderBy
  \/ ReorderBack

SpecSfc == SfcInit /\ [][SfcNext]_vars

\* whether inv is the inverse permutation of the ordering s
IsInverseOf(inv, s) ==
  /\ Len(inv) = Len(s)
  /\ \A p \in 1..Len(s) : s[p] \in 0..(Len(s) - 1) /\ inv[p] \in 0..(Len(s) - 1)
  /\ \A p \in 1..Len(s) : inv[s[p] + 1] = p - 1
  /\ \A p \in 1..Len(s) : s[inv[p] + 1] = p - 1

(***************************************************************************)
(* C23: for every curve numbering the inverse list entry produced by       *)
(* get_sfc_curves_from_coords is the inverse permutation of the matching   *)
(* curve list entry, and the decoder's inv_second_sfc is the inverse       *)
(* permutation of the encoder's second_sfc, so that reordering a tensor by *)
(* an ordering and then by its paired inverse returns the tensor           *)
(* unchanged.                                                              *)
(***************************************************************************)
C23_OrderingsPairedWithInverses ==
  /\ Len(inv_lists) = Len(curve_lists)
  /\ \A i \in 1..Len(curve_lists) : IsInverseOf(inv_lists[i], curve_lists[i])
  /\ inv_second_sfc # None => IsInverseOf(Val(inv_second_sfc), Val(second_sfc))
  /\ (pc_sfc \in {"paired", "ordered", "back"} /\ numbering # <<>>) =>
        Len(curve_lists) = Len(numbering)
  /\ (pc_sfc \in {"paired", "ordered", "back"} /\ second_sfc # None) => inv_second_sfc # None
  /\ (pc_sfc = "back") => sfc_z = sfc_x

C23_Witness ==
  /\ pc_sfc = "back"
  /\ Len(numbering) = 2
  /\ numbering[2] = <<4, 1, 2>>
  /\ curve_lists[2] = <<1, 2, 0>>
  /\ inv_lists[2] = <<2, 0, 1>>
  /\ sfc_y.pair = 2
  /\ sfc_y.x = <<20, 30, 10>>
  /\ sfc_z = <<10, 20, 30>>

(***************************************************************************)
(* The learning-rate schedule of train_model with varying_lr               *)
(* (training.py 521-527, 587-602).  The training loss of an epoch is an    *)
(* input.                                                                  *)
(***************************************************************************)
MaxEpochs == 4

ThresholdDenominator == 100

\* 1e-2
Threshold == <<1, ThresholdDenominator>>

\* the training losses an epoch can end with; none is a power of ten
Losses == { <<1, 2>>, <<1, 4>>, <<2499, 10000>> }

CheckGaps == {1, 2, 3}

\* -np.floor(np.log10(x)) for x in [1e-4, 10)
Digits(x) ==
  CHOOSE d \in 0..4 : /\ ~ FracLess(FracMul(x, FracInt(Pow(10, d))), FracInt(1))
                      /\ FracLess(FracMul(x, FracInt(Pow(10, d))), FracInt(10))

\* training.py 594: decrease_rate * 10 ** digits
Scaled(rate, train_MSE) == FracMul(rate, FracInt(Pow(10, Digits(train_MSE))))

\* training.py 601: what decrease_rate is left as at the end of an epoch
ResetEveryEpoch(rate, checked) == FracInt(0)

TrainInit ==
  /\ PlanIdle
  /\ BfcIdle
  /\ NbrIdle
  /\ ItpIdle
  /\ NnIdle
  /\ AeIdle
  /\ KlIdle
  /\ FwIdle
  /\ SfcIdle
  /\ TabIdle
  /\ pc_train = "loop"
  /\ n_epochs \in 1..MaxEpochs
  /\ epoch = 0
  /\ check_gap \in CheckGaps
  /\ lr = <<1, 10000>>
  /\ old_loss = FracInt(1)
  /\ decrease_rate = FracInt(0)
  /\ train_MSEs = <<>>
  /\ lr_list = << lr >>
  /\ lr_change_epoches = << 0 >>
  /\ printed = <<>>

\* training.py 527-602: one epoch, ending with training loss train_MSE
TrainEpoch ==
  /\ pc_train = "loop"
  /\ epoch < n_epochs
  /\ \E train_MSE \in Losses :
       LET accumulated == FracAdd(decrease_rate, FracSub(old_loss, train_MSE))
           checked == epoch % check_gap = 0
           rate == IF checked THEN Scaled(accumulated, train_MSE) ELSE accumulated
           stuck == checked /\ FracLess(rate, Threshold)
       IN /\ train_MSEs' = Append(train_MSEs, train_MSE)
          /\ printed' = IF checked
                          THEN Append(printed, [ epoch |-> epoch, check_gap |-> check_gap,
                                                 decrease_rate |-> rate ])
                          ELSE printed
          /\ lr' = IF stuck THEN FracDiv(lr, FracInt(2)) ELSE lr
          /\ check_gap' = IF stuck THEN check_gap * 2 ELSE check_gap
          /\ lr_list' = IF stuck THEN Append(lr_list, lr') ELSE lr_list
          /\ lr_change_epoches' = IF stuck THEN Append(lr_change_epoches, epoch)
                                  ELSE lr_change_epoches
          /\ decrease_rate' = ResetEveryEpoch(rate, checked)
          /\ old_loss' = train_MSE
  /\ epoch' = epoch + 1
  /\ UNCHANGED notTrain
  /\ UNCHANGED <<pc_train, n_epochs>>

\* training.py 527: the loop is left
TrainReturn ==
  /\ pc_train = "loop"
  /\ epoch = n_epochs
  /\ pc_train' = "returned"
  /\ UNCHANGED notTrain
  /\ UNCHANGED <<n_epochs, epoch, check_gap, lr, old_loss, decrease_rate, train_MSEs,
                 lr_list, lr_change_epoches, printed>>

TrainNext ==
  \/ TrainEpoch
  \/ TrainReturn

SpecTrain == TrainInit /\ [][TrainNext]_vars

\* the training loss the check number j counts the decrease from: that of the
\* previous check epoch, and 1 before the first check
LossAtPreviousCheck(j) ==
  IF j = 1 THEN FracInt(1) ELSE train_MSEs[printed[j - 1].epoch + 1]

(***************************************************************************)
(* C24: in train_model with varying_lr the quantity compared against 1e-2  *)
(* at a check epoch (epoch % check_gap = 0) is the training-loss decrease  *)
(* accumulated over all epochs since the previous check epoch; when it is  *)
(* below the threshold the learning rate is halved and check_gap is        *)
(* doubled, and the learning rate never increases.                         *)
(***************************************************************************)
C24_ComparedIsAccumulatedDecrease ==
  /\ \A j \in 1..Len(printed) :
        LET e == printed[j].epoch IN
          /\ e % printed[j].check_gap = 0
          /\ printed[j].decrease_rate =
               Scaled(FracSub(LossAtPreviousCheck(j), train_MSEs[e + 1]), train_MSEs[e + 1])
  /\ \A j \in 1..(Len(lr_list) - 1) : lr_list[j + 1] = FracDiv(lr_list[j], FracInt(2))
  /\ lr = Last(lr_list)

(***************************************************************************)
(* C25: the first fully-connected width of the plan is the length of the   *)
(* vector the conv stacks produce, size_fc[0] = sfc_nums * channels[-1] *  *)
(* conv_size[-1]^ndim, also when the conv loop stops before the channel    *)
(* count has reached num_final_channels or there is no conv layer.         *)
(***************************************************************************)
C25_FirstFcWidthIsConvOutput ==
  (pc_plan \in {"returned", "trans"}) =>
     Val(plan).size_fc[1] =
       args.sfc_nums * Last(Val(plan).channels) * Pow(Last(Val(plan).conv_size), args.ndim)

(***************************************************************************)
(* C26: every configuration field that SFC_CAE_Decoder_Adaptive reads      *)
(* during construction or during forward has been assigned beforehand,     *)
(* for every encoder that constructed, with coordinates configured or not: *)
(* no read of an unassigned field, which raises AttributeError.            *)
(***************************************************************************)
C26_DecoderFieldsAssignedBeforeRead ==
  /\ pc_ae # "AttributeError"
  /\ ae_out # None => Val(ae_out).raised # "AttributeError"

(***************************************************************************)
(* C27: a length-adaptation layer built for equal lengths,                 *)
(* BackwardForwardConnecting(L, L) with L >= 2, returns its input          *)
(* unchanged (on a tensor with leading axes, as the encoder and decoder    *)
(* apply it).                                                              *)
(***************************************************************************)
C27_EqualLengthsIsIdentity ==
  ( /\ pc_bfc \in {"first", "second", "RuntimeError"}
    /\ lengths[1] = lengths[2]
    /\ leading # <<>> )
  => /\ pc_bfc # "RuntimeError"
     /\ x_mid = Fracs(x_in)

(***************************************************************************)
(* The encoder's neighbour table NN_neigh_1d and the gather through it.    *)
(***************************************************************************)
MaxTabNodes == 6

TabSizes == 2..MaxTabNodes

\* the shapes of forward's a ahead of its last axis: (batch,) and
\* (batch, channels)
TabLeading == { <<1>>, <<2>>, <<2, 2>> }

\* utils.py 1030-1036: get_neighbourhood_md(torch.arange(n), Ax, ordering = True)
get_neighbourhood_md(n, keys) ==
  Concat(<< Grid(<<n>>) >> \o
         [ i \in 1..Len(keys) |->
             LET neigh == NeighbourIndex(Grid(<<n>>), <<n>>, keys[i]) IN
               [ f \in 1..n |-> neigh[f] + BlockOffset(i - 1, n) ] ])

TabInit ==
  /\ PlanIdle
  /\ BfcIdle
  /\ NbrIdle
  /\ ItpIdle
  /\ NnIdle
  /\ AeIdle
  /\ KlIdle
  /\ FwIdle
  /\ SfcIdle
  /\ TrainIdle
  /\ pc_tab = "new"
  /\ tab_args \in [ input_size : TabSizes,
                    interpolate_num : {None} \cup { Some(n) : n \in TabSizes } ]
  /\ self_input_size = 0
  /\ NN_neigh_1d = <<>>
  /\ tab_a = <<>>
  /\ nn_tt_list = <<>>

\* sfc_cae_adaptive.py 63-71
EncoderTable ==
  /\ pc_tab = "new"
  /\ self_input_size' = tab_args.input_size
  /\ NN_neigh_1d' = get_neighbourhood_md(self_input_size', GeneralKeys(1, 1))
  /\ pc_tab' = "table"
  /\ UNCHANGED notTab
  /\ UNCHANGED <<tab_args, tab_a, nn_tt_list>>

\* sfc_cae_adaptive.py 102-110
EncoderWorkingLength ==
  /\ pc_tab = "table"
  /\ self_input_size' = IF tab_args.interpolate_num # None
                          THEN Val(tab_args.interpolate_num)
                          ELSE self_input_size
  /\ pc_tab' = "built"
  /\ UNCHANGED notTab
  /\ UNCHANGED <<tab_args, NN_neigh_1d, tab_a, nn_tt_list>>

\* sfc_cae_adaptive.py 397-399 with NN set and no coords: a has self.input_size
\* positions on its last axis (the length the snapshots are filled or
\* interpolated to, 353-363).  utils.py 1064 raises IndexError for a table
\* entry past the tiled axis, 1045 RuntimeError for a reshape that changes the
\* number of elements.
EncoderGather ==
  /\ pc_tab = "built"
  /\ \E lead \in TabLeading :
        LET a == Arange(lead \o << self_input_size >>)
            num_neigh == 3
            tiled == self_input_size * num_neigh
        IN /\ tab_a' = a
           /\ IF \E e \in 1..Len(NN_neigh_1d) : NN_neigh_1d[e] >= tiled
                THEN pc_tab' = "IndexError" /\ nn_tt_list' = <<>>
              ELSE IF Len(NN_neigh_1d) # tiled
                THEN pc_tab' = "RuntimeError" /\ nn_tt_list' = <<>>
              ELSE /\ pc_tab' = "gathered"
                   /\ nn_tt_list' = get_concat_list_md(a, NN_neigh_1d, num_neigh)
  /\ UNCHANGED notTab
  /\ UNCHANGED <<tab_args, self_input_size, NN_neigh_1d>>

TabNext ==
  \/ EncoderTable
  \/ EncoderWorkingLength
  \/ EncoderGather

SpecTab == TabInit /\ [][TabNext]_vars

(***************************************************************************)
(* C28: the table NN_neigh_1d is built for the length of the sequences the *)
(* encoder works on, input_size when interpolate_num is not given and      *)
(* interpolate_num when it is: it holds num_neigh entries for each of that *)
(* many nodes, every entry is a valid index into the tiled sequence, and   *)
(* the gather of forward raises nothing.                                   *)
(***************************************************************************)
C28_TableBuiltForWorkingLength ==
  pc_tab \in {"built", "gathered", "IndexError", "RuntimeError"} =>
     /\ Len(NN_neigh_1d) = 3 * self_input_size
     /\ \A e \in 1..Len(NN_neigh_1d) :
           NN_neigh_1d[e] >= 0 /\ NN_neigh_1d[e] < 3 * self_input_size
     /\ pc_tab \notin {"IndexError", "RuntimeError"}

(***************************************************************************)
(* Termination of find_size_conv_layers_and_fc_layers.  The function runs  *)
(* alone and every step it can take is taken, hence the weak fairness.     *)
(* The calls are those with stride >= 2 and kernel_size >= stride.         *)
(***************************************************************************)
PlanLiveArgs ==
  { a \in [ size : Sizes, ksp : KernelStridePadding, dims_latent : {2, 16},
            sfc_nums : {1, 2}, input_channel : {4}, increase_multi : {4},
            num_final_channels : {DefaultFinalChannels, 4096},
            first_sp_channel : {None}, ndim : {1, 2} ] :
      /\ a.ksp[2] >= 2
      /\ a.ksp[1] >= a.ksp[2]
      /\ a.ndim > 1 => a.size <= MaxSize }

PlanLiveInit ==
  /\ BfcIdle
  /\ NbrIdle
  /\ ItpIdle
  /\ NnIdle
  /\ AeIdle
  /\ KlIdle
  /\ FwIdle
  /\ SfcIdle
  /\ TrainIdle
  /\ TabIdle
  /\ pc_plan = "start"
  /\ args \in PlanLiveArgs
  /\ size = args.size
  /\ input_channel = args.input_channel
  /\ stride = args.ksp[2]
  /\ conv_size = <<>>
  /\ output_paddings = <<>>
  /\ channels = <<>>
  /\ size_fc = <<>>
  /\ inv_conv_start = 0
  /\ plan = None
  /\ trans_size = <<>>

SpecPlanLive == PlanLiveInit /\ [][PlanNext]_vars /\ WF_vars(PlanNext)

\* the conv-sizing loop is about to run its body on the values its last
\* iteration started from: size, channels[-1] and input_channel are all the
\* loop reads, so every later iteration repeats this one
ConvLoopRepeats ==
  /\ pc_plan = "conv"
  /\ Len(channels) >= 2
  /\ ConvGuard(size, args.ndim, Last(channels), args.sfc_nums)
  /\ conv_size[Len(conv_size)] = conv_size[Len(conv_size) - 1]
  /\ channels[Len(channels)] = channels[Len(channels) - 1]

\* the bound on the number of conv layers stops a run whose loop is still
\* changing its state
ConvCutShort ==
  /\ pc_plan = "conv"
  /\ Len(channels) > MaxConvLayers
  /\ ConvGuard(size, args.ndim, Last(channels), args.sfc_nums)
  /\ ~ ConvLoopRepeats

(***************************************************************************)
(* C29: find_size_conv_layers_and_fc_layers terminates: for positive size, *)
(* channels, sfc_nums, dims_latent and ndim with stride >= 2 and           *)
(* kernel_size >= stride, both loops finish and a plan is returned (runs   *)
(* the model's bound on the layers cuts while the loop state is still      *)
(* changing are left out).                                                 *)
(***************************************************************************)
C29_PlanTerminates == <>(plan # None \/ ConvCutShort)

(***************************************************************************)
(* C30: whenever back-mapping parameters are produced (n_from >= 2 * n_to, *)
(* back-mapping requested, n_to >= 3), the four positions                  *)
(* linear_interpolate_python reads for each interior target, prev - 1,     *)
(* prev, next and next + 1, lie in [0, n_from): no read is out of range    *)
(* and none wraps to the other end of the sequence.                        *)
(***************************************************************************)
C30_BackMappingReadsInRange ==
  /\ pc_itp # "IndexError"
  /\ ( /\ pc_itp \in {"weights", "done"}
       /\ Val(itp_params).back_mapping_params # None
       /\ nonods_l >= 3 ) =>
        LET pr == Val(itp_params) IN
          /\ BackMapped(nonods, nonods_l, map_back)
          /\ Len(Val(pr.back_mapping_params)) = nonods_l - 2
          /\ \A j \in 2..(nonods_l - 1) :
                /\ pr.nod_prev_list[j] - 1 >= 0
                /\ pr.nod_next_list[j] = pr.nod_prev_list[j] + 1
                /\ pr.nod_next_list[j] + 1 <= nonods - 1

C30_Witness ==
  /\ pc_itp = "done"
  /\ nonods = 7
  /\ nonods_l = 3
  /\ map_back
  /\ Val(itp_params).back_mapping_params # None
  /\ Val(itp_params).nod_prev_list[2] = 3
  /\ Val(itp_params).nod_next_list[2] + 1 = 5

=============================================================================
